---- MODULE Spec2Model ----
(***************************************************************************)
(* Model of bin2c (src/bin2c/main.c) and bin2h (src/bin2h/main.c): the     *)
(* conversion of a binary file into a C array of unsigned char.            *)
(*                                                                         *)
(* Text is a sequence of one-character strings.  A C string is a buffer    *)
(* (a sequence of characters) in which NUL marks the end; a pointer into a *)
(* buffer is a 0-based offset, so the character a pointer p designates is  *)
(* buf[p + 1].  The null pointer of a string is the empty buffer NULL.     *)
(***************************************************************************)
EXTENDS Integers, Sequences, FiniteSets, TLC

VARIABLES
    env,        \* the program, its build, and the content of the input file
    argv,       \* the argument vector; main_shortenname writes into it
    infile,     \* the input stream: position and indicators
    files,      \* the files created by fopen ( path, "wt" ), in order
    outfile,    \* the output stream: an index of files, 0 for NULL
    pc,         \* the block of main / main_runbin2c / main_runbin2h to run next
    success,    \* the variable success of the function that is running
    args,       \* the pointers main_parseargs assigned, as indices of argv
    symbol,     \* the pointer main_shortenname returned into the input path
    outpath,    \* the buffer main_constructoutpath returned
    run,        \* the locals of main_runbin2c / main_runbin2h
    stderr,     \* the messages written to the standard error stream
    status,     \* the exit status
    faults,     \* the library calls that failed so far
    fpc,        \* position of the function-level specifications
    fin,        \* the arguments handed to the function under study
    fout        \* what the function returned (and wrote)

mvars == <<env, argv, infile, files, outfile, pc, success, args, symbol,
           outpath, run, stderr, status, faults>>
fvars == <<fpc, fin, fout>>
vars == <<env, argv, infile, files, outfile, pc, success, args, symbol,
          outpath, run, stderr, status, faults, fpc, fin, fout>>

----------------------------------------------------------------------------
(* limits.h and the macros of the sources *)

USHRT_MAX == 65535
SCHAR_MAX == 127
SHRT_MAX == 32767
LONG_MAX == 2147483647

NUL == "NUL"
NULL == <<>>
MAIN_PATHDELIMITER == "/"

(* conversion to unsigned short *)
U16(x) == x % (USHRT_MAX + 1)

Min(a, b) == IF a <= b THEN a ELSE b

(* the buffer that holds the characters s followed by the terminator *)
CStr(s) == s \o <<NUL>>

(* n times the character c *)
Pad(c, n) == [i \in 1..n |-> c]

(* A buffer is kept in the state as the sequence of its runs <<c, n>>, n    *)
(* times the character c: Pack(buf) is that sequence and Unpack its       *)
(* inverse.  The halves of PackRange only keep the evaluation shallow.    *)
JoinRuns(l, r) ==
    IF l = <<>> THEN r
    ELSE IF r = <<>> THEN l
    ELSE IF l[Len(l)][1] = r[1][1]
         THEN SubSeq(l, 1, Len(l) - 1)
              \o << <<r[1][1], l[Len(l)][2] + r[1][2]>> >>
              \o SubSeq(r, 2, Len(r))
    ELSE l \o r

RECURSIVE PackRange(_, _, _)
PackRange(buf, lo, hi) ==
    IF lo > hi THEN <<>>
    ELSE IF lo = hi THEN << <<buf[lo], 1>> >>
    ELSE JoinRuns(PackRange(buf, lo, (lo + hi) \div 2),
                  PackRange(buf, ((lo + hi) \div 2) + 1, hi))

Pack(buf) == PackRange(buf, 1, Len(buf))

RECURSIVE Unpack(_)
Unpack(runs) ==
    IF runs = <<>> THEN <<>>
    ELSE Pad(runs[1][1], runs[1][2]) \o Unpack(Tail(runs))

(* strlen: the number of characters before the first NUL at or after p *)
strlen_at(buf, p) ==
    LET nuls == {i \in (p + 1)..Len(buf) : buf[i] = NUL}
        first == CHOOSE i \in nuls : \A j \in nuls : i <= j
    IN  first - (p + 1)

strlen(buf) == strlen_at(buf, 0)

(* the characters of the C string that starts at pointer p of buf *)
StrAt(buf, p) == SubSeq(buf, p + 1, p + strlen_at(buf, p))

----------------------------------------------------------------------------
(* main_findname *)

(* the loop body with the delimiter recorded at the separator itself *)
findname_step_at_separator(buf, st) ==
    IF st.length = 0 \/ st.brk THEN st
    ELSE IF buf[st.path + 1] = MAIN_PATHDELIMITER
         THEN [st EXCEPT !.delimiter = U16(USHRT_MAX - st.length),
                         !.length = U16(st.length - 1),
                         !.path = st.path + 1]
    ELSE IF buf[st.path + 1] = NUL
         THEN [st EXCEPT !.brk = TRUE]
    ELSE [st EXCEPT !.length = U16(st.length - 1), !.path = st.path + 1]

(* one iteration of the while loop; brk records the break at the terminator *)
findname_step(buf, st) ==
    IF st.length = 0 \/ st.brk THEN st
    ELSE IF buf[st.path + 1] = MAIN_PATHDELIMITER
         THEN [st EXCEPT !.delimiter = U16((USHRT_MAX - st.length) + 1),
                         !.length = U16(st.length - 1),
                         !.path = st.path + 1]
    ELSE IF buf[st.path + 1] = NUL
         THEN [st EXCEPT !.brk = TRUE]
    ELSE [st EXCEPT !.length = U16(st.length - 1), !.path = st.path + 1]

(* n iterations of the loop, in order; the split only keeps the depth of   *)
(* the evaluation logarithmic in n                                         *)
RECURSIVE findname_loop(_, _, _)
findname_loop(buf, st, n) ==
    IF n = 0 THEN st
    ELSE IF n = 1 THEN findname_step(buf, st)
    ELSE LET r == findname_loop(buf, st, n \div 2)
         IN  IF r = r THEN findname_loop(buf, r, n - (n \div 2)) ELSE st

(* the loop runs while length > 0 and leaves at the first NUL: at most     *)
(* USHRT_MAX iterations, and at most one per character of the buffer       *)
LoopBound(buf) == Min(Len(buf), USHRT_MAX)

(* returns the pointer to the file name *)
main_findname(buf) ==
    LET st == findname_loop(buf,
                            [length |-> USHRT_MAX, delimiter |-> 0,
                             path |-> 0, brk |-> FALSE],
                            LoopBound(buf))
    IN  st.path - ((USHRT_MAX - st.length) - st.delimiter)

----------------------------------------------------------------------------
(* main_shortenname *)

(* the loop body that keeps the first "." of the file name, not the last *)
shortenname_step_first_dot(buf, st) ==
    IF st.length = 0 \/ st.brk THEN st
    ELSE IF buf[st.path + 1] = "."
         THEN [st EXCEPT !.terminus = IF st.terminus = 0 THEN st.length ELSE st.terminus,
                         !.length = U16(st.length - 1),
                         !.path = st.path + 1]
    ELSE IF buf[st.path + 1] = MAIN_PATHDELIMITER
         THEN [st EXCEPT !.terminus = 0,
                         !.delimiter = U16((USHRT_MAX - st.length) + 1),
                         !.length = U16(st.length - 1),
                         !.path = st.path + 1]
    ELSE IF buf[st.path + 1] = NUL
         THEN [st EXCEPT !.brk = TRUE]
    ELSE [st EXCEPT !.length = U16(st.length - 1), !.path = st.path + 1]

shortenname_step(buf, st) ==
    IF st.length = 0 \/ st.brk THEN st
    ELSE IF buf[st.path + 1] = "."
         THEN [st EXCEPT !.terminus = st.length,
                         !.length = U16(st.length - 1),
                         !.path = st.path + 1]
    ELSE IF buf[st.path + 1] = MAIN_PATHDELIMITER
         THEN [st EXCEPT !.terminus = 0,
                         !.delimiter = U16((USHRT_MAX - st.length) + 1),
                         !.length = U16(st.length - 1),
                         !.path = st.path + 1]
    ELSE IF buf[st.path + 1] = NUL
         THEN [st EXCEPT !.brk = TRUE]
    ELSE [st EXCEPT !.length = U16(st.length - 1), !.path = st.path + 1]

RECURSIVE shortenname_loop(_, _, _)
shortenname_loop(buf, st, n) ==
    IF n = 0 THEN st
    ELSE IF n = 1 THEN shortenname_step(buf, st)
    ELSE LET r == shortenname_loop(buf, st, n \div 2)
         IN  IF r = r THEN shortenname_loop(buf, r, n - (n \div 2)) ELSE st

(* returns the pointer to the file name and the buffer as it is left *)
main_shortenname(buf) ==
    LET st == shortenname_loop(buf,
                               [length |-> USHRT_MAX, terminus |-> 0,
                                delimiter |-> 0, path |-> 0, brk |-> FALSE],
                               LoopBound(buf))
        path == st.path - ((USHRT_MAX - st.length) - st.delimiter)
        terminus == U16((USHRT_MAX - st.terminus) - st.delimiter)
    IN  IF st.terminus > 0
        THEN [path |-> path, buf |-> [buf EXCEPT ![path + terminus + 1] = NUL]]
        ELSE [path |-> path, buf |-> buf]

----------------------------------------------------------------------------
(* main_constructoutpath (bin2c) and main_constructoutname (bin2h) *)

constructoutpath_step(buf, st) ==
    IF st.length = 0 \/ st.brk THEN st
    ELSE IF buf[st.inpath + 1] = "."
         THEN [st EXCEPT !.offset = st.length,
                         !.length = U16(st.length - 1),
                         !.inpath = st.inpath + 1]
    ELSE IF buf[st.inpath + 1] = MAIN_PATHDELIMITER
         THEN [st EXCEPT !.offset = USHRT_MAX,
                         !.length = U16(st.length - 1),
                         !.inpath = st.inpath + 1]
    ELSE IF buf[st.inpath + 1] = NUL
         THEN [st EXCEPT !.brk = TRUE]
    ELSE [st EXCEPT !.length = U16(st.length - 1), !.inpath = st.inpath + 1]

RECURSIVE constructoutpath_loop(_, _, _)
constructoutpath_loop(buf, st, n) ==
    IF n = 0 THEN st
    ELSE IF n = 1 THEN constructoutpath_step(buf, st)
    ELSE LET r == constructoutpath_loop(buf, st, n \div 2)
         IN  IF r = r THEN constructoutpath_loop(buf, r, n - (n \div 2)) ELSE st

(* the span of the elements of an object touched through a pointer: the   *)
(* least and the greatest offset and the number of accesses                *)
Untouched == [first |-> 0, last |-> 0, count |-> 0]

Touch(span, i) ==
    IF span.count = 0 THEN [first |-> i, last |-> i, count |-> 1]
    ELSE [first |-> Min(span.first, i),
          last |-> IF span.last >= i THEN span.last ELSE i,
          count |-> span.count + 1]

(* the number of characters requested from malloc without the terminator *)
constructoutpath_request_without_terminator(length) == length + 2

(* the number of characters requested from malloc for a stem of length     *)
(* characters (unsigned short promoted, then 2u + 1u)                      *)
constructoutpath_request(length) == length + 2 + 1

(* the body of the copy loop: one character of the input path read and     *)
(* one character of the allocation written; wrapped records an unsigned    *)
(* short that passed below 0                                               *)
constructoutpath_copy_step(st) ==
    IF st.length = 0 THEN st
    ELSE [st EXCEPT !.written = Touch(@, st.outpath),
                    !.read = Touch(@, st.inpath),
                    !.wrapped = @ \/ st.length - 1 < 0,
                    !.length = U16(st.length - 1),
                    !.inpath = st.inpath + 1,
                    !.outpath = st.outpath + 1]

RECURSIVE constructoutpath_copy_loop(_, _)
constructoutpath_copy_loop(st, n) ==
    IF n = 0 THEN st
    ELSE IF n = 1 THEN constructoutpath_copy_step(st)
    ELSE LET r == constructoutpath_copy_loop(st, n \div 2)
         IN  IF r = r THEN constructoutpath_copy_loop(r, n - (n \div 2)) ELSE st

(* the copy into the allocation: outpath counts from the start of the      *)
(* allocation.  Returns the elements written and read, the pointer         *)
(* returned, and whether length or offset wrapped.                         *)
constructoutpath_copy(inpath, length) ==
    LET offset == length
        st == constructoutpath_copy_loop([length |-> length, inpath |-> inpath,
                                          outpath |-> 0, written |-> Untouched,
                                          read |-> Untouched, wrapped |-> FALSE],
                                         length)
        dot == st.outpath
        space == dot + 1
        terminator == space + 1
    IN  [written |-> Touch(Touch(Touch(st.written, dot), space), terminator),
         read |-> st.read,
         wrapped |-> st.wrapped,
         ret |-> (terminator - 2) - offset]

(* ext is the second character of the extension written: " " in bin2c, "h" *)
(* in bin2h; heap tells whether malloc returns memory.  Returns the buffer  *)
(* allocated (NULL on failure), the number of characters requested, and    *)
(* the accesses of the copy.                                               *)
main_constructoutpath(buf, ext, heap) ==
    LET st == constructoutpath_loop(buf,
                                    [length |-> USHRT_MAX, offset |-> USHRT_MAX,
                                     inpath |-> 0, brk |-> FALSE],
                                    LoopBound(buf))
        inpath == st.inpath - (USHRT_MAX - st.length)
        length == IF st.offset # USHRT_MAX THEN st.offset ELSE st.length
        stem == U16(USHRT_MAX - length)
    IN  IF buf[st.inpath + 1] = NUL /\ length >= 2 + 1
        THEN [alloc |-> constructoutpath_request(stem),
              outpath |-> IF heap
                          THEN [i \in 1..stem |-> buf[inpath + i]] \o <<".", ext, NUL>>
                          ELSE NULL,
              copy |-> IF heap
                       THEN [constructoutpath_copy(inpath, stem)
                                EXCEPT !.wrapped = @ \/ USHRT_MAX - length < 0]
                       ELSE NULL]
        ELSE [alloc |-> 0, outpath |-> NULL, copy |-> NULL]

----------------------------------------------------------------------------
(* ctype.h toupper in the "C" locale *)

LowerCase == <<"a", "b", "c", "d", "e", "f", "g", "h", "i", "j", "k", "l", "m",
               "n", "o", "p", "q", "r", "s", "t", "u", "v", "w", "x", "y", "z">>
UpperCase == <<"A", "B", "C", "D", "E", "F", "G", "H", "I", "J", "K", "L", "M",
               "N", "O", "P", "Q", "R", "S", "T", "U", "V", "W", "X", "Y", "Z">>

toupper(c) ==
    IF \E k \in 1..Len(LowerCase) : LowerCase[k] = c
    THEN UpperCase[CHOOSE k \in 1..Len(LowerCase) : LowerCase[k] = c]
    ELSE c

----------------------------------------------------------------------------
(* main_runbin2c_constructmacro_upperizemacro: macro is the text written   *)
(* so far, the value returned is the text up to the returned cursor        *)

(* the copy without the conversion *)
upperizemacro_plain_copy(part, macro) == macro \o StrAt(part, 0)

main_runbin2c_constructmacro_upperizemacro(part, macro) ==
    macro \o [i \in 1..strlen(part) |-> toupper(part[i])]

(* main_runbin2c_constructmacro, its measuring block: the three statements *)
(* made for a fragment of the given length                                 *)

(* the statements with the result of the comparison assigned, not and-ed *)
constructmacro_fragment_last_wins(st, fragment) ==
    [success |-> fragment < st.length,
     length |-> U16(st.length - U16(fragment))]

constructmacro_fragment(st, fragment) ==
    [success |-> st.success /\ fragment < st.length,
     length |-> U16(st.length - U16(fragment))]

(* the measuring block on the lengths of the strings; a part that is NULL  *)
(* is not measured.  alloc is the number of characters requested of malloc *)
constructmacro_measure(hasprefix, lprefix, lcore, hassuffix, lsuffix) ==
    LET s0 == [success |-> TRUE, length |-> USHRT_MAX]
        s1 == IF hasprefix THEN constructmacro_fragment(s0, lprefix) ELSE s0
        s2 == constructmacro_fragment(s1, lcore)
        s3 == IF hassuffix THEN constructmacro_fragment(s2, lsuffix) ELSE s2
        fits == s3.success /\ s3.length >= 1
        length == U16(USHRT_MAX - s3.length)
    IN  [success |-> fits,
         alloc |-> IF success THEN length + 1 ELSE 0]

(* returns the buffer allocated, NULL on failure *)
main_runbin2c_constructmacro(prefix, core, suffix, heap) ==
    LET m == constructmacro_measure(prefix # NULL,
                                    IF prefix # NULL THEN strlen(prefix) ELSE 0,
                                    strlen(core),
                                    suffix # NULL,
                                    IF suffix # NULL THEN strlen(suffix) ELSE 0)
        c0 == <<>>
        c1 == IF prefix # NULL
              THEN main_runbin2c_constructmacro_upperizemacro(prefix, c0) ELSE c0
        c2 == main_runbin2c_constructmacro_upperizemacro(core, c1)
        c3 == IF suffix # NULL
              THEN main_runbin2c_constructmacro_upperizemacro(suffix, c2) ELSE c2
    IN  IF m.success /\ heap THEN c3 \o <<NUL>> ELSE NULL

----------------------------------------------------------------------------
(* stdio.h fprintf.  A format is a sequence of characters and conversion   *)
(* specifications; the text written is returned.                           *)

HexDigits == <<"0", "1", "2", "3", "4", "5", "6", "7",
               "8", "9", "A", "B", "C", "D", "E", "F">>
HexDigitsLower == <<"0", "1", "2", "3", "4", "5", "6", "7",
                    "8", "9", "a", "b", "c", "d", "e", "f">>
DecDigits == <<"0", "1", "2", "3", "4", "5", "6", "7", "8", "9">>

(* %x, the lower-case conversion *)
RECURSIVE HexLower(_)
HexLower(v) ==
    IF v < 16 THEN <<HexDigitsLower[v + 1]>>
    ELSE HexLower(v \div 16) \o <<HexDigitsLower[(v % 16) + 1]>>

(* %X of a non-negative value: no leading zeros *)
RECURSIVE Hex(_)
Hex(v) ==
    IF v < 16 THEN <<HexDigits[v + 1]>>
    ELSE Hex(v \div 16) \o <<HexDigits[(v % 16) + 1]>>

RECURSIVE DecUnsigned(_)
DecUnsigned(v) ==
    IF v < 10 THEN <<DecDigits[v + 1]>>
    ELSE DecUnsigned(v \div 10) \o <<DecDigits[(v % 10) + 1]>>

(* %d *)
Dec(v) == IF v < 0 THEN <<"-">> \o DecUnsigned(0 - v) ELSE DecUnsigned(v)

(* conversion to a signed type of w bits, w < 32 *)
ToSigned(x, w) ==
    LET m == x % (2 ^ w)
    IN  IF m >= 2 ^ (w - 1) THEN m - 2 ^ w ELSE m

Conversion(spec, arg) ==
    CASE spec = "%hhX" -> Hex(arg % 256)
      [] spec = "%hX" -> Hex(arg % 65536)
      [] spec = "%hhd" -> Dec(ToSigned(arg, 8))
      [] spec = "%hd" -> Dec(ToSigned(arg, 16))
      [] spec = "%d" -> Dec(arg)
      [] spec = "%ld" -> Dec(arg)
      [] spec = "%s" -> StrAt(arg, 0)

ConversionSpecs == {"%hhX", "%hX", "%hhd", "%hd", "%d", "%ld", "%s"}

RECURSIVE Printf(_, _)
Printf(format, arguments) ==
    IF format = <<>> THEN <<>>
    ELSE IF format[1] \in ConversionSpecs
         THEN Conversion(format[1], arguments[1])
              \o Printf(Tail(format), Tail(arguments))
    ELSE <<format[1]>> \o Printf(Tail(format), arguments)

----------------------------------------------------------------------------
(* The build and the platform.  stdc99 stands for the condition            *)
(* defined(__STDC_VERSION__) && __STDC_VERSION__ >= 199901l of bin2c;      *)
(* bin2h has no such condition.  int has 16 or 32 bits, long has 32 bits   *)
(* (the integers of the model checker end at 2^31 - 1).                    *)

IntBits == {16, 32}
INT_MAX(intbits) == IF intbits = 16 THEN SHRT_MAX ELSE LONG_MAX

(* conversion of a long to int *)
ToInt(x, intbits) == IF intbits = 16 THEN ToSigned(x, 16) ELSE x

(* the format of the first element (bin2c 752-756, bin2h 397) and of the   *)
(* elements after it (bin2c 799-803, bin2h 432)                            *)
FormatFirst(prog, stdc99) ==
    IF prog = "bin2c" /\ stdc99
    THEN <<"0", "x", "%hhX", "u">>
    ELSE <<"0", "x", "%hX", "u">>

FormatNext_no_separator(prog, stdc99) ==
    IF prog = "bin2c" /\ stdc99
    THEN <<"0", "x", "%hhX", "u">>
    ELSE <<"0", "x", "%hX", "u">>

FormatNext(prog, stdc99) ==
    IF prog = "bin2c" /\ stdc99
    THEN <<",", " ", "0", "x", "%hhX", "u">>
    ELSE <<",", " ", "0", "x", "%hX", "u">>

(* the first tier of the C99 build with SHRT_MAX where SCHAR_MAX belongs *)
SizeLiteral_char_tier_too_wide(length, stdc99, intbits) ==
    IF stdc99 /\ length <= SHRT_MAX
    THEN [tier |-> "char", text |-> Printf(<<" ", " ", "%hhd">>, <<ToSigned(length, 8)>>)]
    ELSE IF length <= SHRT_MAX
    THEN [tier |-> "short", text |-> Printf(<<" ", " ", "%hd">>, <<ToSigned(length, 16)>>)]
    ELSE IF length <= INT_MAX(intbits)
    THEN [tier |-> "int", text |-> Printf(<<" ", " ", "%d">>, <<ToInt(length, intbits)>>)]
    ELSE [tier |-> "long", text |-> Printf(<<" ", " ", "%ld", "l">>, <<length>>)]

(* the value of the size macro as main_runbin2c writes it (951-984): the   *)
(* branch taken and the text of the fprintf                                *)
SizeLiteral(length, stdc99, intbits) ==
    IF stdc99 /\ length <= SCHAR_MAX
    THEN [tier |-> "char", text |-> Printf(<<" ", " ", "%hhd">>, <<ToSigned(length, 8)>>)]
    ELSE IF length <= SHRT_MAX
    THEN [tier |-> "short", text |-> Printf(<<" ", " ", "%hd">>, <<ToSigned(length, 16)>>)]
    ELSE IF length <= INT_MAX(intbits)
    THEN [tier |-> "int", text |-> Printf(<<" ", " ", "%d">>, <<ToInt(length, intbits)>>)]
    ELSE [tier |-> "long", text |-> Printf(<<" ", " ", "%ld", "l">>, <<length>>)]

----------------------------------------------------------------------------
(* The texts and formats the programs write *)

(* bin2c 687: "#include \"%s.h\"\n\n" *)
FORMAT_include ==
    <<"#", "i", "n", "c", "l", "u", "d", "e", " ", "\"", "%s", ".", "h",
      "\"", "\n", "\n">>

(* the specifier without the space after it *)
TEXT_static_without_space ==
    <<"s", "t", "a", "t", "i", "c">>

(* bin2c 693 *)
TEXT_static ==
    <<"s", "t", "a", "t", "i", "c", " ">>

(* bin2c 698 *)
TEXT_unsigned_char_const ==
    <<"u", "n", "s", "i", "g", "n", "e", "d", " ", "c", "h", "a", "r", " ",
      "c", "o", "n", "s", "t", " ">>

(* bin2h 342 *)
TEXT_static_unsigned_char_const ==
    <<"s", "t", "a", "t", "i", "c", " ", "u", "n", "s", "i", "g", "n", "e",
      "d", " ", "c", "h", "a", "r", " ", "c", "o", "n", "s", "t", " ">>

(* bin2c 722, bin2h 362 *)
TEXT_open ==
    <<"[", "]", " ", "=", " ", "{", " ">>

(* the closing of the array without the space before the brace *)
TEXT_close_unspaced ==
    <<"}", ";", "\n">>

(* bin2c 830, bin2h 459 *)
TEXT_close ==
    <<" ", "}", ";", "\n">>

(* bin2c 890 *)
FORMAT_guard ==
    <<"#", "i", "f", " ", "!", "d", "e", "f", "i", "n", "e", "d", " ", "(",
      " ", "_", "_", "%s", "_", "H", "_", "_", " ", ")", "\n", "\n", "#",
      "d", "e", "f", "i", "n", "e", " ", "_", "_", "%s", "_", "H", "_",
      "_", "\n", "\n", "e", "x", "t", "e", "r", "n", " ", "u", "n", "s",
      "i", "g", "n", "e", "d", " ", "c", "h", "a", "r", " ", "c", "o", "n",
      "s", "t", " ">>

(* bin2c 918 *)
TEXT_define ==
    <<"[", "]", ";", "\n", "\n", "#", "d", "e", "f", "i", "n", "e", " ">>

(* bin2c 986 *)
TEXT_endif ==
    <<"\n", "\n", "#", "e", "n", "d", "i", "f", "\n">>

----------------------------------------------------------------------------
(* main_parseargs (bin2c 1285-1410, bin2h 743-858).  The pointers program, *)
(* inpath, prefix, suffix and global are indices of argv, 0 for NULL and   *)
(* -1 while nothing was assigned; parameter names the pointer the next     *)
(* plain argument is stored through.                                       *)

(* the option g accepted by bin2h as well *)
parseargs_token_g_everywhere(prog, arg, i, st) ==
    IF arg[1] = "-"
    THEN LET option == arg[2]
             parameter == CASE option \in {"p", "P"} -> "prefix"
                            [] option \in {"s", "S"} -> "suffix"
                            [] option \in {"g", "G"} -> "global"
                            [] OTHER -> "default"
             pending == st.success /\ st.parameter = "NULL"
         IN  [st EXCEPT !.parameter = IF parameter = "default" THEN @ ELSE parameter,
                        !.success = /\ pending
                                    /\ parameter # "default"
                                    /\ Len(arg) >= 3
                                    /\ arg[3] = NUL]
    ELSE IF st.parameter # "NULL"
         THEN [st EXCEPT ![st.parameter] = i, !.parameter = "NULL"]
         ELSE [st EXCEPT !.success = FALSE]

parseargs_token(prog, arg, i, st) ==
    IF arg[1] = "-"
    THEN LET option == arg[2]
             parameter == CASE option \in {"p", "P"} -> "prefix"
                            [] option \in {"s", "S"} -> "suffix"
                            [] prog = "bin2c" /\ option \in {"g", "G"} -> "global"
                            [] OTHER -> "default"
             pending == st.success /\ st.parameter = "NULL"
         IN  [st EXCEPT !.parameter = IF parameter = "default" THEN @ ELSE parameter,
                        !.success = /\ pending
                                    /\ parameter # "default"
                                    /\ Len(arg) >= 3
                                    /\ arg[3] = NUL]
    ELSE IF st.parameter # "NULL"
         THEN [st EXCEPT ![st.parameter] = i, !.parameter = "NULL"]
         ELSE [st EXCEPT !.success = FALSE]

RECURSIVE parseargs_loop(_, _, _, _)
parseargs_loop(prog, av, i, st) ==
    IF i > Len(av) THEN st
    ELSE parseargs_loop(prog, av, i + 1, parseargs_token(prog, av[i], i, st))

main_parseargs(prog, av) ==
    LET s0 == [success |-> TRUE, parameter |-> "NULL", program |-> -1,
               inpath |-> -1, prefix |-> 0, suffix |-> 0, global |-> 0]
        s1 == IF Len(av) > 0
              THEN [s0 EXCEPT !.program = 1, !.parameter = "inpath"]
              ELSE s0
        s2 == parseargs_loop(prog, av, 2, s1)
    IN  [s2 EXCEPT !.success = s2.success /\ s2.parameter = "NULL"]

----------------------------------------------------------------------------
(* stdio.h on the output: a call that fails writes nothing.  texts are the *)
(* texts of consecutive calls and mask tells which of the calls fail.      *)

RECURSIVE Written(_, _)
Written(texts, mask) ==
    IF texts = <<>> THEN <<>>
    ELSE (IF mask[1] THEN <<>> ELSE texts[1]) \o Written(Tail(texts), Tail(mask))

(* only the first call is tested *)
AllSucceed_first_only(mask) == ~mask[1]

AllSucceed(mask) == \A i \in 1..Len(mask) : ~mask[i]

Failures(mask) == Cardinality({i \in 1..Len(mask) : mask[i]})

(* the buffer as seen through the pointer p *)
From(buf, p) == SubSeq(buf, p + 1, Len(buf))

(* int error = <a bool>: false is 0 and true is 1 *)
BoolToInt(b) == IF b THEN 1 ELSE 0

(* main_runbin2c_outputsymbol: the texts of its fputs calls, and its       *)
(* result for the calls that fail                                          *)
outputsymbol_texts_without_suffix(prefix, name, suffix) ==
    (IF prefix # NULL THEN <<StrAt(prefix, 0)>> ELSE <<>>)
    \o <<StrAt(name, 0)>>

outputsymbol_texts(prefix, name, suffix) ==
    (IF prefix # NULL THEN <<StrAt(prefix, 0)>> ELSE <<>>)
    \o <<StrAt(name, 0)>>
    \o (IF suffix # NULL THEN <<StrAt(suffix, 0)>> ELSE <<>>)

main_runbin2c_outputsymbol(prefix, name, suffix, mask) ==
    [text |-> Written(outputsymbol_texts(prefix, name, suffix), mask),
     success |-> AllSucceed(mask)]

(* fread with only complete chunks delivered *)
fread_whole_chunks(source, pos, nmemb) ==
    LET count == IF Len(source) - pos >= nmemb THEN nmemb ELSE 0
    IN  [count |-> count,
         data |-> SubSeq(source, pos + 1, pos + count),
         eof |-> Len(source) - pos < nmemb]

(* fread ( buffer, 1, nmemb, infile ) without read error: the bytes        *)
(* delivered, and whether the end of the file was met                      *)
fread(source, pos, nmemb) ==
    LET count == Min(nmemb, Len(source) - pos)
    IN  [count |-> count,
         data |-> SubSeq(source, pos + 1, pos + count),
         eof |-> count < nmemb]

(* the byte the pointer data designates, data not advanced *)
ElementAt_buffer_start(buffer, data) == buffer[1]

(* *data, data counted from the start of the buffer *)
ElementAt(buffer, data) == buffer[data + 1]

(* length += 1ul; the conversion back to long wraps at LONG_MAX *)
Increment(length) == IF length = LONG_MAX THEN (0 - LONG_MAX) - 1 ELSE length + 1

(* bin2c 796-797: success &= length < LONG_MAX; length += 1ul; *)
count_element(ok, length) ==
    [success |-> ok /\ length < LONG_MAX,
     length |-> Increment(length)]

----------------------------------------------------------------------------
(* The programs.  One step of the model is one block of main,              *)
(* main_runbin2c or main_runbin2h; the calls of the C library that can     *)
(* fail (fopen, malloc, fread, fputs, fprintf, fflush, fclose) fail or     *)
(* succeed as the environment decides, MaxFaults times at most in a run.   *)

MaxFaults == 1
MaxChunk == 2
MaxSourceLen == 3

(* the masks of n consecutive calls the run may still meet *)
Masks(n) == {m \in [1..n -> BOOLEAN] : faults + Failures(m) <= MaxFaults}

IsGlobal == args.global # 0
ArgBuf(i) == IF i = 0 THEN NULL ELSE argv[i]
Prefix == ArgBuf(args.prefix)
Suffix == ArgBuf(args.suffix)
Global == ArgBuf(args.global)
Symbol == From(argv[args.inpath], symbol)

(* fopen ( path, "wt" ): the file is created empty *)
Created(path) == [name |-> StrAt(path, 0), text |-> <<>>, open |-> TRUE]

(* the texts of consecutive calls written to the open output file *)
Put(texts, mask) == [files EXCEPT ![outfile].text = @ \o Written(texts, mask)]

(* fclose that leaves the file open *)
Closed_left_open == files

(* fclose ( outfile ) *)
Closed == [files EXCEPT ![outfile].open = FALSE]

(* main, bin2c 1482-1491 and bin2h 928-936 *)
Main_ParseArgs ==
    /\ pc = "parse"
    /\ LET r == main_parseargs(env.prog, argv)
       IN  /\ success' = r.success
           /\ args' = [program |-> r.program, inpath |-> r.inpath,
                       prefix |-> r.prefix, suffix |-> r.suffix,
                       global |-> r.global]
    /\ pc' = "openin"
    /\ UNCHANGED <<env, argv, infile, files, outfile, symbol, outpath, run,
                   stderr, status, faults, fvars>>

(* main, bin2c 1502-1507 and bin2h 947-952 *)
Main_OpenInput ==
    /\ pc = "openin"
    /\ IF success
       THEN \E m \in Masks(1) :
                /\ infile' = [infile EXCEPT !.state = IF m[1] THEN "NULL" ELSE "open"]
                /\ success' = ~m[1]
                /\ faults' = faults + Failures(m)
       ELSE UNCHANGED <<infile, success, faults>>
    /\ pc' = "outpath"
    /\ UNCHANGED <<env, argv, files, outfile, args, symbol, outpath, run,
                   stderr, status, fvars>>

(* main, bin2c 1509-1513: the output path is kept for main_runbin2c *)
Main_OutPath ==
    /\ pc = "outpath"
    /\ env.prog = "bin2c"
    /\ IF success
       THEN \E m \in Masks(1) :
                LET r == main_constructoutpath(argv[args.inpath], " ", ~m[1])
                IN  /\ r.alloc = 0 => ~m[1]
                    /\ outpath' = r.outpath
                    /\ success' = (success /\ r.outpath # NULL)
                    /\ faults' = faults + Failures(m)
       ELSE UNCHANGED <<outpath, success, faults>>
    /\ pc' = "dispatch"
    /\ UNCHANGED <<env, argv, infile, files, outfile, args, symbol, run,
                   stderr, status, fvars>>

(* main, bin2h 954-976: the output file is opened and the path released *)
Main_OutFile ==
    /\ pc = "outpath"
    /\ env.prog = "bin2h"
    /\ IF success
       THEN \E m \in Masks(2) :
                LET r == main_constructoutpath(argv[args.inpath], "h", ~m[1])
                IN  /\ r.alloc = 0 => ~m[1]
                    /\ r.outpath = NULL => ~m[2]
                    /\ IF r.outpath # NULL /\ ~m[2]
                       THEN /\ files' = Append(files, Created(r.outpath))
                            /\ outfile' = Len(files) + 1
                       ELSE UNCHANGED <<files, outfile>>
                    /\ success' = (r.outpath # NULL /\ ~m[2])
                    /\ faults' = faults + Failures(m)
       ELSE UNCHANGED <<files, outfile, success, faults>>
    /\ pc' = "dispatch"
    /\ UNCHANGED <<env, argv, infile, args, symbol, outpath, run,
                   stderr, status, fvars>>

(* main, bin2c 1523-1543 and bin2h 986-1006: the usage text, or the call   *)
(* of main_runbin2c / main_runbin2h with the symbol main_shortenname       *)
(* leaves in the input path                                                *)
Main_Dispatch ==
    /\ pc = "dispatch"
    /\ IF ~success
       THEN /\ stderr' = Append(stderr,
                  [text |-> "usage",
                   program |-> IF args.program # 0
                               THEN StrAt(argv[args.program],
                                          main_findname(argv[args.program]))
                               ELSE StrAt(CStr(<<"b", "i", "n", "2",
                                                 IF env.prog = "bin2c" THEN "c" ELSE "h">>), 0)])
            /\ pc' = "cleanup"
            /\ UNCHANGED <<argv, symbol>>
       ELSE LET r == main_shortenname(argv[args.inpath])
            IN  /\ argv' = [argv EXCEPT ![args.inpath] = r.buf]
                /\ symbol' = r.path
                /\ pc' = IF env.prog = "bin2c" THEN "r_open" ELSE "h_name"
                /\ UNCHANGED stderr
    /\ UNCHANGED <<env, infile, files, outfile, success, args, outpath, run,
                   status, faults, fvars>>

(* main_runbin2c, 633-670: the last character of outpath becomes c or h    *)
(* and the file of the definition is opened                                *)
R_Open ==
    /\ pc = "r_open"
    /\ IF strlen(outpath) >= 1
       THEN \E m \in Masks(1) :
                LET offset == strlen(outpath) - 1
                    path == [outpath EXCEPT ![offset + 1] = IF IsGlobal THEN "c" ELSE "h"]
                IN  /\ run' = [run EXCEPT !.offset = offset]
                    /\ outpath' = path
                    /\ files' = IF m[1] THEN files ELSE Append(files, Created(path))
                    /\ outfile' = IF m[1] THEN 0 ELSE Len(files) + 1
                    /\ success' = ~m[1]
                    /\ faults' = faults + Failures(m)
       ELSE /\ success' = FALSE
            /\ outfile' = 0
            /\ UNCHANGED <<run, outpath, files, faults>>
    /\ pc' = "r_preamble"
    /\ UNCHANGED <<env, argv, infile, args, symbol, stderr, status, fvars>>

(* main_runbin2c, 680-703 *)
R_Preamble ==
    /\ pc = "r_preamble"
    /\ IF success
       THEN \E m \in Masks(2) :
                /\ files' = Put(<<IF IsGlobal
                                  THEN Printf(FORMAT_include, <<Symbol>>)
                                  ELSE TEXT_static,
                                  TEXT_unsigned_char_const>>, m)
                /\ success' = AllSucceed(m)
                /\ faults' = faults + Failures(m)
       ELSE UNCHANGED <<files, success, faults>>
    /\ pc' = "r_name"
    /\ UNCHANGED <<env, argv, infile, outfile, args, symbol, outpath, run,
                   stderr, status, fvars>>

(* main_runbin2c, 705-728: the result of main_runbin2c_outputsymbol, a     *)
(* bool, is stored in the int error and tested with error >= 0             *)
R_Name ==
    /\ pc = "r_name"
    /\ IF success
       THEN LET n == Len(outputsymbol_texts(Prefix, Symbol, Suffix))
            IN  \E m \in Masks(n + 1) :
                    LET r == main_runbin2c_outputsymbol(Prefix, Symbol, Suffix,
                                                        SubSeq(m, 1, n))
                    IN  /\ files' = [files EXCEPT ![outfile].text =
                                        @ \o r.text \o Written(<<TEXT_open>>, <<m[n + 1]>>)]
                        /\ success' = (BoolToInt(r.success) >= 0 /\ ~m[n + 1])
                        /\ faults' = faults + Failures(m)
       ELSE UNCHANGED <<files, success, faults>>
    /\ pc' = "r_alloc"
    /\ UNCHANGED <<env, argv, infile, outfile, args, symbol, outpath, run,
                   stderr, status, fvars>>

(* main_runbin2h, 343-375: the five fputs of the declaration *)
H_Name ==
    /\ pc = "h_name"
    /\ IF success
       THEN LET texts == <<TEXT_static_unsigned_char_const>>
                         \o outputsymbol_texts(Prefix, Symbol, Suffix)
                         \o <<TEXT_open>>
            IN  \E m \in Masks(Len(texts)) :
                    /\ files' = Put(texts, m)
                    /\ success' = AllSucceed(m)
                    /\ faults' = faults + Failures(m)
       ELSE UNCHANGED <<files, success, faults>>
    /\ pc' = "r_alloc"
    /\ UNCHANGED <<env, argv, infile, outfile, args, symbol, outpath, run,
                   stderr, status, fvars>>

(* main_runbin2c 744-759, main_runbin2h 391-399: success is assigned the   *)
(* outcome of malloc                                                       *)
R_Alloc ==
    /\ pc = "r_alloc"
    /\ \E m \in Masks(1) :
           /\ run' = [run EXCEPT !.length = 0,
                                 !.format = FormatFirst(env.prog, env.stdc99),
                                 !.buffer = IF m[1] THEN "NULL" ELSE "allocated"]
           /\ success' = ~m[1]
           /\ faults' = faults + Failures(m)
    /\ pc' = "r_loop"
    /\ UNCHANGED <<env, argv, infile, files, outfile, args, symbol, outpath,
                   stderr, status, fvars>>

(* main_runbin2c 761-781, main_runbin2h 401-420: the test of the while,    *)
(* fread and the test of the error indicator.  A read that fails delivers  *)
(* k bytes, fewer than a read without error would, and sets the error      *)
(* indicator.                                                              *)
R_Read ==
    /\ pc = "r_loop"
    /\ IF success
       THEN \E m \in Masks(1) :
                LET whole == fread(env.source, infile.pos, env.chunksize)
                IN  \E k \in 0..whole.count :
                        LET r == IF m[1]
                                 THEN [count |-> k,
                                       data |-> SubSeq(whole.data, 1, k),
                                       eof |-> FALSE]
                                 ELSE whole
                            error == infile.error \/ m[1]
                            ok == ~(r.count < 1 /\ error)
                        IN  /\ m[1] => k < env.chunksize
                            /\ ~m[1] => k = whole.count
                            /\ infile' = [infile EXCEPT !.pos = @ + r.count,
                                                        !.eof = @ \/ r.eof,
                                                        !.error = error]
                            /\ run' = [run EXCEPT !.chunk = r.data,
                                                  !.count = r.count,
                                                  !.data = 0]
                            /\ success' = ok
                            /\ faults' = faults + Failures(m)
                            /\ pc' = IF ok /\ r.count > 0 THEN "r_element" ELSE "r_eof"
       ELSE /\ pc' = "r_free"
            /\ UNCHANGED <<infile, run, success, faults>>
    /\ UNCHANGED <<env, argv, files, outfile, args, symbol, outpath,
                   stderr, status, fvars>>

(* main_runbin2c 783-808, main_runbin2h 422-437: one iteration of the      *)
(* inner while; only bin2c counts the elements.  In bin2c outfile is NULL  *)
(* here when fopen failed: fprintf on it is undefined, and is taken to     *)
(* end the process or to return an error.                                  *)
R_Element ==
    /\ pc = "r_element"
    /\ \E m \in Masks(1), outcome \in {"returns", "crashes"} :
           /\ outfile # 0 => outcome = "returns"
           /\ outfile = 0 => ~m[1]
           /\ files' = IF outfile # 0
                       THEN Put(<<Printf(run.format,
                                         <<ElementAt(run.chunk, run.data)>>)>>, m)
                       ELSE files
           /\ success' = LET wrote == success /\ ~m[1] /\ outfile # 0
                         IN  IF env.prog = "bin2c"
                             THEN count_element(wrote, run.length).success
                             ELSE wrote
           /\ run' = [run EXCEPT !.length = IF env.prog = "bin2c"
                                            THEN count_element(success, @).length
                                            ELSE @,
                                 !.format = FormatNext(env.prog, env.stdc99),
                                 !.count = @ - 1,
                                 !.data = @ + 1]
           /\ faults' = faults + Failures(m)
           /\ pc' = IF outcome = "crashes" THEN "crashed"
                    ELSE IF run.count - 1 > 0 THEN "r_element" ELSE "r_eof"
           /\ status' = IF outcome = "crashes" THEN "signal" ELSE status
    /\ UNCHANGED <<env, argv, infile, outfile, args, symbol, outpath,
                   stderr, fvars>>

(* the loop left after the first chunk, end of file or not *)
R_Eof_after_first_chunk ==
    /\ pc = "r_eof"
    /\ pc' = "r_free"
    /\ UNCHANGED <<env, argv, infile, files, outfile, success, args, symbol,
                   outpath, run, stderr, status, faults, fvars>>

(* main_runbin2c 812-817, main_runbin2h 441-446 *)
R_Eof ==
    /\ pc = "r_eof"
    /\ pc' = IF infile.eof THEN "r_free" ELSE "r_loop"
    /\ UNCHANGED <<env, argv, infile, files, outfile, success, args, symbol,
                   outpath, run, stderr, status, faults, fvars>>

(* the loop left without the call of free *)
R_Free_skipped ==
    /\ pc = "r_free"
    /\ pc' = "r_close"
    /\ UNCHANGED <<env, argv, infile, files, outfile, success, args, symbol,
                   outpath, run, stderr, status, faults, fvars>>

(* main_runbin2c 819-822, main_runbin2h 448-451 *)
R_Free ==
    /\ pc = "r_free"
    /\ run' = [run EXCEPT !.buffer = IF @ # "NULL" THEN "freed" ELSE @]
    /\ pc' = "r_close"
    /\ UNCHANGED <<env, argv, infile, files, outfile, success, args, symbol,
                   outpath, stderr, status, faults, fvars>>

(* main_runbin2c 826-834, main_runbin2h 455-463; fputs on the NULL        *)
(* outfile of bin2c is undefined as fprintf is                             *)
R_Close ==
    /\ pc = "r_close"
    /\ IF success
       THEN \E m \in Masks(1), outcome \in {"returns", "crashes"} :
                /\ outfile # 0 => outcome = "returns"
                /\ outfile = 0 => ~m[1]
                /\ files' = IF outfile # 0 THEN Put(<<TEXT_close>>, m) ELSE files
                /\ success' = (~m[1] /\ outfile # 0)
                /\ faults' = faults + Failures(m)
                /\ pc' = IF outcome = "crashes" THEN "crashed"
                         ELSE IF env.prog = "bin2c" THEN "r_flush" ELSE "h_flush"
                /\ status' = IF outcome = "crashes" THEN "signal" ELSE status
       ELSE /\ pc' = IF env.prog = "bin2c" THEN "r_flush" ELSE "h_flush"
            /\ UNCHANGED <<files, success, faults, status>>
    /\ UNCHANGED <<env, argv, infile, outfile, args, symbol, outpath, run,
                   stderr, fvars>>

(* main_runbin2c 836-846: fflush and fclose of the file of the definition *)
R_Flush ==
    /\ pc = "r_flush"
    /\ IF outfile # 0
       THEN \E m \in Masks(2) :
                /\ files' = Closed
                /\ success' = (success /\ AllSucceed(m))
                /\ faults' = faults + Failures(m)
       ELSE UNCHANGED <<files, success, faults>>
    /\ pc' = IF IsGlobal THEN "g_open" ELSE "r_return"
    /\ UNCHANGED <<env, argv, infile, outfile, args, symbol, outpath, run,
                   stderr, status, fvars>>

(* main_runbin2h 465-472 *)
H_Flush ==
    /\ pc = "h_flush"
    /\ IF success
       THEN \E m \in Masks(1) :
                /\ success' = ~m[1]
                /\ faults' = faults + Failures(m)
       ELSE UNCHANGED <<success, faults>>
    /\ pc' = "r_return"
    /\ UNCHANGED <<env, argv, infile, files, outfile, args, symbol, outpath,
                   run, stderr, status, fvars>>

(* main_runbin2c, 859-874: the header of the global array is opened under  *)
(* the name with the last character h                                      *)
G_Open ==
    /\ pc = "g_open"
    /\ IF success
       THEN \E m \in Masks(1) :
                LET path == [outpath EXCEPT ![run.offset + 1] = "h"]
                IN  /\ outpath' = path
                    /\ files' = IF m[1] THEN files ELSE Append(files, Created(path))
                    /\ outfile' = IF m[1] THEN 0 ELSE Len(files) + 1
                    /\ success' = ~m[1]
                    /\ faults' = faults + Failures(m)
       ELSE /\ outfile' = 0
            /\ UNCHANGED <<outpath, files, success, faults>>
    /\ pc' = "g_guard"
    /\ UNCHANGED <<env, argv, infile, args, symbol, run, stderr, status, fvars>>

(* main_runbin2c, 876-899 *)
G_Guard ==
    /\ pc = "g_guard"
    /\ IF success
       THEN \E m \in Masks(2) :
                LET macro == main_runbin2c_constructmacro(NULL, Symbol, NULL, ~m[1])
                IN  /\ macro = NULL => ~m[2]
                    /\ files' = IF macro # NULL
                                THEN Put(<<Printf(FORMAT_guard, <<macro, macro>>)>>,
                                         <<m[2]>>)
                                ELSE files
                    /\ success' = (macro # NULL /\ ~m[2])
                    /\ faults' = faults + Failures(m)
       ELSE UNCHANGED <<files, success, faults>>
    /\ pc' = "g_decl"
    /\ UNCHANGED <<env, argv, infile, outfile, args, symbol, outpath, run,
                   stderr, status, fvars>>

(* main_runbin2c, 901-924 *)
G_Decl ==
    /\ pc = "g_decl"
    /\ IF success
       THEN LET n == Len(outputsymbol_texts(Prefix, Symbol, Suffix))
            IN  \E m \in Masks(n + 1) :
                    LET r == main_runbin2c_outputsymbol(Prefix, Symbol, Suffix,
                                                        SubSeq(m, 1, n))
                    IN  /\ files' = [files EXCEPT ![outfile].text =
                                        @ \o r.text \o Written(<<TEXT_define>>, <<m[n + 1]>>)]
                        /\ success' = (BoolToInt(r.success) >= 0 /\ ~m[n + 1])
                        /\ faults' = faults + Failures(m)
       ELSE UNCHANGED <<files, success, faults>>
    /\ pc' = "g_size"
    /\ UNCHANGED <<env, argv, infile, outfile, args, symbol, outpath, run,
                   stderr, status, fvars>>

(* main_runbin2c, 926-992: the name of the size macro, its value and the   *)
(* end of the include guard                                                *)
G_Size ==
    /\ pc = "g_size"
    /\ IF success
       THEN \E m \in Masks(4) :
                LET macro == main_runbin2c_constructmacro(Prefix, Symbol, Global, ~m[1])
                    named == macro # NULL /\ ~m[2]
                IN  /\ macro = NULL => ~m[2]
                    /\ ~named => (~m[3] /\ ~m[4])
                    /\ files' = IF macro = NULL THEN files
                                ELSE Put(<<StrAt(macro, 0)>>
                                         \o (IF named
                                             THEN <<SizeLiteral(run.length, env.stdc99,
                                                                env.intbits).text,
                                                    TEXT_endif>>
                                             ELSE <<>>),
                                         SubSeq(m, 2, IF named THEN 4 ELSE 2))
                    /\ success' = (named /\ ~m[3] /\ ~m[4])
                    /\ faults' = faults + Failures(m)
       ELSE UNCHANGED <<files, success, faults>>
    /\ pc' = "g_flush"
    /\ UNCHANGED <<env, argv, infile, outfile, args, symbol, outpath, run,
                   stderr, status, fvars>>

(* main_runbin2c, 994-1003 *)
G_Flush ==
    /\ pc = "g_flush"
    /\ IF outfile # 0
       THEN \E m \in Masks(2) :
                /\ files' = Closed
                /\ success' = (success /\ AllSucceed(m))
                /\ faults' = faults + Failures(m)
       ELSE UNCHANGED <<files, success, faults>>
    /\ pc' = "r_return"
    /\ UNCHANGED <<env, argv, infile, outfile, args, symbol, outpath, run,
                   stderr, status, fvars>>

(* main_runbin2c 1007-1013, main_runbin2h 474-480: the message of a failed *)
(* conversion; the result becomes the success of main                      *)
R_Return ==
    /\ pc = "r_return"
    /\ stderr' = IF ~success
                 THEN Append(stderr, [text |-> "ERROR: failed to create",
                                      program |-> <<>>])
                 ELSE stderr
    /\ pc' = "cleanup"
    /\ UNCHANGED <<env, argv, infile, files, outfile, success, args, symbol,
                   outpath, run, status, faults, fvars>>

(* main, bin2c 1555-1584: outpath is released and the input file closed *)
Main_Cleanup ==
    /\ pc = "cleanup"
    /\ env.prog = "bin2c"
    /\ \E m \in Masks(1) :
           LET clean == ~(infile.state = "open" /\ m[1])
           IN  /\ infile.state # "open" => ~m[1]
               /\ infile' = [infile EXCEPT !.state = IF @ = "open" THEN "closed" ELSE @]
               /\ stderr' = IF ~clean
                            THEN Append(stderr, [text |-> "ERROR: failed to properly close",
                                                 program |-> <<>>])
                            ELSE stderr
               /\ success' = (success /\ clean)
               /\ status' = IF success /\ clean THEN "EXIT_SUCCESS" ELSE "EXIT_FAILURE"
               /\ faults' = faults + Failures(m)
    /\ outpath' = NULL
    /\ pc' = "done"
    /\ UNCHANGED <<env, argv, files, outfile, args, symbol, run, fvars>>

(* main, bin2h 1013-1046: the output file and the input file are closed *)
Main_CloseFiles ==
    /\ pc = "cleanup"
    /\ env.prog = "bin2h"
    /\ \E m \in Masks(2) :
           LET clean == /\ ~(outfile # 0 /\ m[1])
                        /\ ~(infile.state = "open" /\ m[2])
           IN  /\ outfile = 0 => ~m[1]
               /\ infile.state # "open" => ~m[2]
               /\ files' = IF outfile # 0 THEN Closed ELSE files
               /\ infile' = [infile EXCEPT !.state = IF @ = "open" THEN "closed" ELSE @]
               /\ stderr' = IF ~clean
                            THEN Append(stderr, [text |-> "ERROR: failed to properly close",
                                                 program |-> <<>>])
                            ELSE stderr
               /\ success' = (success /\ clean)
               /\ status' = IF success /\ clean THEN "EXIT_SUCCESS" ELSE "EXIT_FAILURE"
               /\ faults' = faults + Failures(m)
    /\ pc' = "done"
    /\ UNCHANGED <<env, argv, outfile, args, symbol, outpath, run, fvars>>

----------------------------------------------------------------------------
(* Specification Spec: the runs of bin2c and bin2h *)

SourceBytes == {5, 200}
Sources == UNION {[1..n -> SourceBytes] : n \in 0..MaxSourceLen}

(* the builds: only bin2c depends on the version of the C standard *)
Envs ==
    {e \in [prog : {"bin2c", "bin2h"}, stdc99 : BOOLEAN, intbits : {32},
            chunksize : 1..MaxChunk, source : Sources] :
        e.prog = "bin2h" => ~e.stdc99}

ARG_program == CStr(<<"x", "/", "b">>)
ARG_inpath == CStr(<<"d", "/", "c", ".", "b">>)
ARG_plain == CStr(<<"c">>)
ARG_p == CStr(<<"-", "p">>)
ARG_s == CStr(<<"-", "s">>)
ARG_g == CStr(<<"-", "g">>)
ARG_prefix == CStr(<<"s", "_">>)
ARG_suffix == CStr(<<"_", "d">>)
ARG_global == CStr(<<"_", "n">>)

ArgVectors ==
    { <<ARG_program>>,
      <<ARG_program, ARG_inpath>>,
      <<ARG_program, ARG_plain, ARG_p, ARG_prefix, ARG_s, ARG_suffix>>,
      <<ARG_program, ARG_inpath, ARG_g, ARG_global>>,
      <<ARG_program, ARG_inpath, ARG_p, ARG_prefix, ARG_s, ARG_suffix,
        ARG_g, ARG_global>> }

(* the variables of the programs while a function is examined alone *)
MainIdle ==
    /\ env = [prog |-> "none"]
    /\ argv = <<>>
    /\ infile = [state |-> "NULL"]
    /\ files = <<>>
    /\ outfile = 0
    /\ pc = "off"
    /\ success = TRUE
    /\ args = <<>>
    /\ symbol = 0
    /\ outpath = NULL
    /\ run = <<>>
    /\ stderr = <<>>
    /\ status = "off"
    /\ faults = 0

Init ==
    /\ env \in Envs
    /\ argv \in ArgVectors
    /\ infile = [state |-> "NULL", pos |-> 0, eof |-> FALSE, error |-> FALSE]
    /\ files = <<>>
    /\ outfile = 0
    /\ pc = "parse"
    /\ success = TRUE
    /\ args = [program |-> -1, inpath |-> -1, prefix |-> -1, suffix |-> -1,
               global |-> -1]
    /\ symbol = 0
    /\ outpath = NULL
    /\ run = [offset |-> 0, length |-> 0, format |-> <<>>, buffer |-> "NULL",
              chunk |-> <<>>, count |-> 0, data |-> 0]
    /\ stderr = <<>>
    /\ status = "running"
    /\ faults = 0
    /\ fpc = "off"
    /\ fin = <<>>
    /\ fout = <<>>

Next ==
    \/ Main_ParseArgs
    \/ Main_OpenInput
    \/ Main_OutPath
    \/ Main_OutFile
    \/ Main_Dispatch
    \/ R_Open
    \/ R_Preamble
    \/ R_Name
    \/ H_Name
    \/ R_Alloc
    \/ R_Read
    \/ R_Element
    \/ R_Eof
    \/ R_Free
    \/ R_Close
    \/ R_Flush
    \/ H_Flush
    \/ G_Open
    \/ G_Guard
    \/ G_Decl
    \/ G_Size
    \/ G_Flush
    \/ R_Return
    \/ Main_Cleanup
    \/ Main_CloseFiles

Spec == Init /\ [][Next]_vars

----------------------------------------------------------------------------
(* Specification SpecPath: the three path functions applied to a path.     *)
(* main (src/bin2c/main.c 1509-1543) calls main_constructoutpath on the    *)
(* input path and, only when it succeeded, main_shortenname on the same    *)
(* buffer; main_findname is applied to the program name, which may be any  *)
(* string.                                                                 *)

MaxPathLen == 4
MaxOver == 2

PathChars == {"a", ".", MAIN_PATHDELIMITER}

Strings(S, n) == UNION {[1..k -> S] : k \in 0..n}

ShortPaths == Strings(PathChars, MaxPathLen)

(* paths whose length is around the bound of the scans: without extension, *)
(* with an extension, and with a separator near the bound                  *)
LongPaths ==
    {Pad("a", (USHRT_MAX - 3) + k) : k \in 0..MaxOver}
    \cup {<<"a", ".">> \o Pad("a", (USHRT_MAX - 2) + k) : k \in 0..MaxOver}
    \cup {Pad("a", (USHRT_MAX - 1) + k) \o <<MAIN_PATHDELIMITER, "a">> : k \in 0..MaxOver}

Init_Path ==
    /\ MainIdle
    /\ fpc = "call"
    /\ fin \in [path : {Pack(CStr(s)) : s \in ShortPaths}, ext : {" ", "h"}, heap : BOOLEAN]
               \cup [path : {Pack(CStr(s)) : s \in LongPaths}, ext : {" "}, heap : {TRUE}]
    /\ fout = [ret |-> 0]

F_findname ==
    /\ fpc = "call"
    /\ fpc' = "findname"
    /\ fout' = [ret |-> main_findname(Unpack(fin.path))]
    /\ UNCHANGED <<fin, mvars>>

F_constructoutpath ==
    /\ fpc = "call"
    /\ fpc' = "constructed"
    /\ fout' = LET r == main_constructoutpath(Unpack(fin.path), fin.ext, fin.heap)
                IN  [alloc |-> r.alloc, outpath |-> Pack(r.outpath), copy |-> r.copy]
    /\ UNCHANGED <<fin, mvars>>

F_shortenname ==
    /\ fpc = "constructed"
    /\ fout.outpath # NULL
    /\ fpc' = "shortened"
    /\ fout' = LET r == main_shortenname(Unpack(fin.path))
                IN  [ret |-> r.path, buf |-> Pack(r.buf), outpath |-> fout.outpath]
    /\ UNCHANGED <<fin, mvars>>

Next_Path == F_findname \/ F_constructoutpath \/ F_shortenname

SpecPath == Init_Path /\ [][Next_Path]_vars

----------------------------------------------------------------------------
(* The properties of a path, stated on the characters of the path itself   *)

(* the greatest index in 1..n at which s holds c, 0 when there is none *)
LastIndexOf(s, c, n) ==
    LET where == {i \in 1..n : s[i] = c}
    IN  IF where = {} THEN 0 ELSE CHOOSE i \in where : \A j \in where : j <= i

(* the index of the last separator of s, 0 when there is none *)
LastSeparator(s) == LastIndexOf(s, MAIN_PATHDELIMITER, Len(s))

(* the index of the last "." after the last separator, 0 when there is none *)
ExtensionDot(s) ==
    LET dot == LastIndexOf(s, ".", Len(s))
    IN  IF dot > LastSeparator(s) THEN dot ELSE 0

(* s without its extension *)
Stem(s) == IF ExtensionDot(s) = 0 THEN s ELSE SubSeq(s, 1, ExtensionDot(s) - 1)

InBuf == Unpack(fin.path)

(* C6 (as claimed): for every terminated input path within the length      *)
(* bound, and when the allocation succeeds, the path returned is the input *)
(* path without everything from the last "." after the last separator,     *)
(* followed by the replacement extension.                                  *)
C6_OutPathReplacesExtension ==
    fpc = "constructed" =>
        LET s == StrAt(InBuf, 0)
        IN  (fin.heap /\ Len(s) + 1 <= USHRT_MAX)
                => Unpack(fout.outpath) = CStr(Stem(s) \o <<".", fin.ext>>)

(* C7: main_shortenname changes at most one character of the buffer, the   *)
(* last "." after the last separator, which becomes the terminator; with   *)
(* no such "." the buffer is unchanged; the string returned is the file    *)
(* name up to that dot.                                                    *)
C7_ShortenChangesOnlyTheDot ==
    fpc = "shortened" =>
        LET old == InBuf
            new == Unpack(fout.buf)
            s == StrAt(old, 0)
            dot == ExtensionDot(s)
            last == IF dot = 0 THEN Len(s) ELSE dot - 1
        IN  /\ dot = 0 => new = old
            /\ dot > 0 => /\ Len(new) = Len(old)
                          /\ new[dot] = NUL
                          /\ \A i \in 1..Len(old) : i # dot => new[i] = old[i]
            /\ StrAt(new, fout.ret) = SubSeq(s, LastSeparator(s) + 1, last)

(* a path with a "." in a directory, an extension, and characters after it *)
C7_Witness ==
    /\ fpc = "shortened"
    /\ InBuf = <<".", "/", ".", "a", NUL>>
    /\ Unpack(fout.buf) = <<".", "/", NUL, "a", NUL>>
    /\ fout.ret = 2

(* C8 (as claimed): for every terminated path main_findname returns the    *)
(* suffix that starts just after the last separator, the whole path when   *)
(* there is none.                                                          *)
C8_FindNameAfterLastSeparator ==
    fpc = "findname" =>
        LET s == StrAt(InBuf, 0)
        IN  StrAt(InBuf, fout.ret) = SubSeq(s, LastSeparator(s) + 1, Len(s))

(* C8 (amended): the separators considered are those among the first       *)
(* USHRT_MAX characters of the path; for a path of at most USHRT_MAX       *)
(* characters the string returned is the suffix after its last separator.  *)
C8_FindNameWithinBound ==
    fpc = "findname" =>
        LET s == StrAt(InBuf, 0)
            seen == Min(Len(s), USHRT_MAX)
        IN  StrAt(InBuf, fout.ret)
                = SubSeq(s, LastIndexOf(s, MAIN_PATHDELIMITER, seen) + 1, Len(s))

C8_Witness ==
    /\ fpc = "findname"
    /\ InBuf = <<"a", "/", ".", "/", NUL>>
    /\ fout.ret = 4

(* C11 (as claimed): when the allocation succeeds, a path of exactly       *)
(* USHRT_MAX characters with its terminator gets an output path, and a     *)
(* path of more characters gets none, with or without an extension.        *)
C11_BoundaryAtUSHRT_MAX ==
    (fpc = "constructed" /\ fin.heap) =>
        LET size == strlen(InBuf) + 1
        IN  /\ size = USHRT_MAX => fout.outpath # NULL
            /\ size > USHRT_MAX => fout.outpath = NULL

----------------------------------------------------------------------------
(* Specification SpecMacro: main_runbin2c_constructmacro applied to three  *)
(* strings, and its measuring block applied to the lengths of three        *)
(* strings (the block reads the strings through strlen only).              *)

MaxFragLen == 2
MaxLenOver == 3

MacroChars == {"s", "Z", "_"}

Fragments ==
    {CStr(s) : s \in Strings(MacroChars, MaxFragLen)}
    \cup {CStr(<<"s", "_">>), CStr(<<"d", "a", "t", "a">>), CStr(<<"_", "l", "e", "n">>)}

(* lengths of strings: short, around USHRT_MAX, and around the multiples   *)
(* of USHRT_MAX + 1 that the conversion to unsigned short maps to 0        *)
FragmentLengths ==
    (0..MaxFragLen)
    \cup {(USHRT_MAX - MaxLenOver) + k : k \in 0..(2 * MaxLenOver)}
    \cup {2 * (USHRT_MAX + 1) + k : k \in 0..MaxLenOver}

Init_Macro ==
    /\ MainIdle
    /\ fpc = "call"
    /\ fin \in [kind : {"strings"},
                prefix : Fragments \cup {NULL},
                core : Fragments,
                suffix : Fragments \cup {NULL},
                heap : BOOLEAN]
               \cup [kind : {"lengths"},
                     hasprefix : {TRUE}, lprefix : FragmentLengths,
                     lcore : FragmentLengths,
                     hassuffix : {TRUE}, lsuffix : FragmentLengths]
               \cup [kind : {"lengths"},
                     hasprefix : {FALSE}, lprefix : {0},
                     lcore : FragmentLengths,
                     hassuffix : BOOLEAN, lsuffix : 0..MaxFragLen]
    /\ fout = [ret |-> 0]

F_constructmacro ==
    /\ fpc = "call"
    /\ fin.kind = "strings"
    /\ fpc' = "built"
    /\ fout' = [macro |-> main_runbin2c_constructmacro(fin.prefix, fin.core,
                                                       fin.suffix, fin.heap)]
    /\ UNCHANGED <<fin, mvars>>

F_constructmacro_measure ==
    /\ fpc = "call"
    /\ fin.kind = "lengths"
    /\ fpc' = "measured"
    /\ fout' = constructmacro_measure(fin.hasprefix, fin.lprefix, fin.lcore,
                                      fin.hassuffix, fin.lsuffix)
    /\ UNCHANGED <<fin, mvars>>

Next_Macro == F_constructmacro \/ F_constructmacro_measure

SpecMacro == Init_Macro /\ [][Next_Macro]_vars

(* the characters of a string argument that may be NULL *)
TextOf(arg) == IF arg = NULL THEN <<>> ELSE StrAt(arg, 0)

IsLower(c) == \E k \in 1..Len(LowerCase) : LowerCase[k] = c

(* C9: the macro is prefix, core and suffix in that order, every           *)
(* alphabetic character in upper case and every other character unchanged, *)
(* of the summed length and terminated.                                    *)
C9_MacroIsUpperCasedConcatenation ==
    (fpc = "built" /\ fin.heap) =>
        LET cat == TextOf(fin.prefix) \o TextOf(fin.core) \o TextOf(fin.suffix)
        IN  /\ fout.macro # NULL
            /\ Len(fout.macro) = Len(cat) + 1
            /\ fout.macro[Len(cat) + 1] = NUL
            /\ \A i \in 1..Len(cat) :
                   IF IsLower(cat[i])
                   THEN \E k \in 1..Len(LowerCase) :
                            LowerCase[k] = cat[i] /\ fout.macro[i] = UpperCase[k]
                   ELSE fout.macro[i] = cat[i]

(* build("s_", "data", "_len") = S_DATA_LEN *)
C9_Witness ==
    /\ fpc = "built"
    /\ fin.prefix = CStr(<<"s", "_">>)
    /\ fin.core = CStr(<<"d", "a", "t", "a">>)
    /\ fin.suffix = CStr(<<"_", "l", "e", "n">>)
    /\ fout.macro = CStr(<<"S", "_", "D", "A", "T", "A", "_", "L", "E", "N">>)

(* C10: the measuring block fails exactly when the summed length of the    *)
(* parts present plus the terminator exceeds USHRT_MAX, and on success     *)
(* requests the summed length plus one.                                    *)
C10_MeasureFailsIffTooLong ==
    fpc = "measured" =>
        LET sum == (IF fin.hasprefix THEN fin.lprefix ELSE 0) + fin.lcore
                   + (IF fin.hassuffix THEN fin.lsuffix ELSE 0)
        IN  /\ fout.success <=> (sum + 1 <= USHRT_MAX)
            /\ fout.success => fout.alloc = sum + 1

(* the longest macro accepted, a part at the bound and a part beyond it *)
C10_Witness ==
    /\ fpc = "measured"
    /\ fin.hasprefix /\ fin.hassuffix
    /\ fin.lprefix = 1 /\ fin.lcore = USHRT_MAX - 3 /\ fin.lsuffix = 1
    /\ fout.success
    /\ fout.alloc = USHRT_MAX

----------------------------------------------------------------------------
(* Specification SpecFmt: the fprintf of one array element, for every      *)
(* value of a byte, each program and each build.                           *)

Init_Fmt ==
    /\ MainIdle
    /\ fpc = "call"
    /\ fin \in [byte : 0..255, prog : {"bin2c", "bin2h"},
                stdc99 : BOOLEAN, first : BOOLEAN]
    /\ fout = [ret |-> 0]

F_element ==
    /\ fpc = "call"
    /\ fpc' = "formatted"
    /\ fout' = [text |-> Printf(IF fin.first
                                THEN FormatFirst(fin.prog, fin.stdc99)
                                ELSE FormatNext(fin.prog, fin.stdc99),
                                <<fin.byte>>)]
    /\ UNCHANGED <<fin, mvars>>

Next_Fmt == F_element

SpecFmt == Init_Fmt /\ [][Next_Fmt]_vars

(* the text of the element without the separator that precedes it *)
ElementOf(text, first) == IF first THEN text ELSE SubSeq(text, 3, Len(text))

(* C3 (as claimed): every byte is written as 0x, exactly two hexadecimal   *)
(* digits (zero-padded) and u.                                             *)
C3_TwoHexDigits ==
    fpc = "formatted" =>
        ElementOf(fout.text, fin.first)
            = <<"0", "x", HexDigits[(fin.byte \div 16) + 1],
                HexDigits[(fin.byte % 16) + 1], "u">>

(* C3 (amended): every byte is written as 0x, its value in upper-case      *)
(* hexadecimal digits without leading zero (one digit for 0..15, two for   *)
(* 16..255) and u.                                                         *)
C3_HexDigitsUnpadded ==
    fpc = "formatted" =>
        ElementOf(fout.text, fin.first)
            = IF fin.byte < 16
              THEN <<"0", "x", HexDigits[fin.byte + 1], "u">>
              ELSE <<"0", "x", HexDigits[(fin.byte \div 16) + 1],
                     HexDigits[(fin.byte % 16) + 1], "u">>

C3_Witness ==
    /\ fpc = "formatted"
    /\ fin.byte = 5
    /\ fin.first
    /\ fout.text = <<"0", "x", "5", "u">>

----------------------------------------------------------------------------
(* Specification SpecSize: the value of the size macro, for counts around  *)
(* the limits of the tiers, each build and each width of int.              *)

MaxSmallCount == 200

SizeCounts ==
    (0..MaxSmallCount)
    \cup {SHRT_MAX - 1, SHRT_MAX, SHRT_MAX + 1, USHRT_MAX, USHRT_MAX + 1,
          LONG_MAX - 1, LONG_MAX}

Init_Size ==
    /\ MainIdle
    /\ fpc = "call"
    /\ fin \in [length : SizeCounts, stdc99 : BOOLEAN, intbits : IntBits]
    /\ fout = [ret |-> 0]

F_sizeliteral ==
    /\ fpc = "call"
    /\ fpc' = "sized"
    /\ fout' = SizeLiteral(fin.length, fin.stdc99, fin.intbits)
    /\ UNCHANGED <<fin, mvars>>

Next_Size == F_sizeliteral

SpecSize == Init_Size /\ [][Next_Size]_vars

(* the greatest count of each tier *)
TierMax(tier, intbits) ==
    CASE tier = "char" -> SCHAR_MAX
      [] tier = "short" -> SHRT_MAX
      [] tier = "int" -> INT_MAX(intbits)
      [] tier = "long" -> LONG_MAX

(* tier holds the count and no tier of tiers with a smaller range does *)
IsSmallestTier(tier, tiers, count, intbits) ==
    /\ tier \in tiers
    /\ count <= TierMax(tier, intbits)
    /\ \A t \in tiers :
           count <= TierMax(t, intbits) => TierMax(tier, intbits) <= TierMax(t, intbits)

IsDecDigit(c) == \E k \in 1..Len(DecDigits) : DecDigits[k] = c

RECURSIVE DecValue(_)
DecValue(digits) ==
    IF digits = <<>> THEN 0
    ELSE 10 * DecValue(SubSeq(digits, 1, Len(digits) - 1))
         + ((CHOOSE k \in 1..Len(DecDigits) : DecDigits[k] = digits[Len(digits)]) - 1)

(* the text is two spaces, the count in decimal, and l in the long tier *)
SizeTextIsCount(text, tier, count) ==
    LET last == IF tier = "long" THEN Len(text) - 1 ELSE Len(text)
        digits == SubSeq(text, 3, last)
    IN  /\ text[1] = " " /\ text[2] = " "
        /\ tier = "long" => text[Len(text)] = "l"
        /\ digits # <<>>
        /\ \A i \in 1..Len(digits) : IsDecDigit(digits[i])
        /\ DecValue(digits) = count

(* C5 (as claimed): the value is rendered through the smallest of the four *)
(* tiers that holds the count, and the decimal text equals the count.      *)
C5_SmallestOfFourTiers ==
    fpc = "sized" =>
        /\ IsSmallestTier(fout.tier, {"char", "short", "int", "long"},
                          fin.length, fin.intbits)
        /\ SizeTextIsCount(fout.text, fout.tier, fin.length)

(* C5 (amended): the four tiers are those of a build for C99 or later; a   *)
(* build for an earlier standard has no SCHAR_MAX tier and renders through *)
(* the smallest of the other three.  The decimal text equals the count in  *)
(* both.                                                                   *)
C5_SmallestTierOfTheBuild ==
    fpc = "sized" =>
        /\ IsSmallestTier(fout.tier,
                          IF fin.stdc99 THEN {"char", "short", "int", "long"}
                                        ELSE {"short", "int", "long"},
                          fin.length, fin.intbits)
        /\ SizeTextIsCount(fout.text, fout.tier, fin.length)

(* count 200 is beyond the first tier *)
C5_Witness ==
    /\ fpc = "sized"
    /\ fin.stdc99
    /\ fin.length = 200
    /\ fout.tier = "short"
    /\ fout.text = <<" ", " ", "2", "0", "0">>

----------------------------------------------------------------------------
(* The array written by the encoding loop, read back from the output file  *)
(* at the end of the loop (the while of bin2c 761-817, bin2h 401-446).     *)

(* the text of the file the elements are written to *)
Emitted == IF outfile = 0 THEN <<>> ELSE files[outfile].text

LoopEnded == pc = "r_free"

IsHexDigit(c) == \E k \in 1..Len(HexDigits) : HexDigits[k] = c

RECURSIVE HexValue(_)
HexValue(digits) ==
    IF digits = <<>> THEN 0
    ELSE 16 * HexValue(SubSeq(digits, 1, Len(digits) - 1))
         + ((CHOOSE k \in 1..Len(HexDigits) : HexDigits[k] = digits[Len(digits)]) - 1)

(* the places of text where an element starts: 0x and a hexadecimal digit  *)
ElementStarts(text) ==
    {i \in 1..(Len(text) - 2) :
        text[i] = "0" /\ text[i + 1] = "x" /\ IsHexDigit(text[i + 2])}

NumElements(text) == Cardinality(ElementStarts(text))

(* the digits of the element that starts at i, up to the suffix u *)
DigitsAt(text, i) ==
    LET stop == CHOOSE j \in (i + 2)..(Len(text) + 1) :
                    /\ j = Len(text) + 1 \/ ~IsHexDigit(text[j])
                    /\ \A k \in (i + 2)..(j - 1) : IsHexDigit(text[k])
    IN  SubSeq(text, i + 2, stop - 1)

(* the values of the elements of text, in the order of the text *)
RECURSIVE ValuesFrom(_, _)
ValuesFrom(text, starts) ==
    IF starts = {} THEN <<>>
    ELSE LET i == CHOOSE j \in starts : \A k \in starts : j <= k
         IN  <<HexValue(DigitsAt(text, i))>> \o ValuesFrom(text, starts \ {i})

ParseValues(text) == ValuesFrom(text, ElementStarts(text))

(* the array body: what follows the opening "[] = { " *)
HasOpen == \E i \in 1..Len(Emitted) : Emitted[i] = "{"

ArrayBody ==
    LET i == CHOOSE j \in 1..Len(Emitted) : Emitted[j] = "{"
    IN  SubSeq(Emitted, i + 2, Len(Emitted))

SeparatorStarts(text) ==
    {i \in 1..(Len(text) - 1) : text[i] = "," /\ text[i + 1] = " "}

(* C1: when the loop ends with success and the source was read without    *)
(* error, the output holds exactly one element per byte of the source, and *)
(* in bin2c the element count length equals the byte length of the source. *)
C1_OneElementPerByte ==
    (LoopEnded /\ success /\ ~infile.error) =>
        /\ NumElements(Emitted) = Len(env.source)
        /\ infile.pos = Len(env.source)
        /\ env.prog = "bin2c" => run.length = Len(env.source)

C1_Witness ==
    /\ LoopEnded
    /\ success
    /\ ~infile.error
    /\ env.prog = "bin2c"
    /\ env.chunksize = 2
    /\ env.source = <<5, 200, 5>>
    /\ run.length = 3
    /\ NumElements(Emitted) = 3

(* C2: when the loop ends with success, the values of the elements read    *)
(* back from the output are the bytes of the source, element i being byte  *)
(* i, also where a chunk ends and the next begins.                         *)
C2_RoundTrip ==
    (LoopEnded /\ success) => ParseValues(Emitted) = env.source

C2_Witness ==
    /\ LoopEnded
    /\ success
    /\ env.prog = "bin2h"
    /\ env.chunksize = 2
    /\ env.source = <<200, 5, 5>>
    /\ ParseValues(Emitted) = <<200, 5, 5>>

(* C4: when the loop ends with success after the opening of the array was  *)
(* written, the n >= 1 elements of the body are separated by exactly n - 1 *)
(* separators ", ": the body starts with an element, ends with the suffix  *)
(* u of an element, and every separator stands between the u of one        *)
(* element and the 0x of the next.                                         *)
C4_SeparatorsBetweenElements ==
    (LoopEnded /\ success /\ HasOpen) =>
        LET body == ArrayBody
            n == NumElements(body)
        IN  /\ n = Len(env.source)
            /\ n = 0 => body = <<>>
            /\ n >= 1 =>
                  /\ Cardinality(SeparatorStarts(body)) = n - 1
                  /\ 1 \in ElementStarts(body)
                  /\ body[Len(body)] = "u"
                  /\ \A i \in SeparatorStarts(body) :
                         /\ i > 1
                         /\ body[i - 1] = "u"
                         /\ (i + 2) \in ElementStarts(body)
                  /\ \A i \in 1..Len(body) :
                         body[i] = "," => i \in SeparatorStarts(body)

C4_Witness ==
    /\ LoopEnded
    /\ success
    /\ HasOpen
    /\ env.chunksize = 2
    /\ env.source = <<5, 200, 200>>
    /\ ArrayBody = <<"0", "x", "5", "u", ",", " ", "0", "x", "C", "8", "u",
                     ",", " ", "0", "x", "C", "8", "u">>

----------------------------------------------------------------------------
(* The texts of the output files, stated on the arguments of the run *)

(* the usage text was written: main did not call the conversion *)
UsageShown == \E i \in 1..Len(stderr) : stderr[i].text = "usage"

Finished == pc = "done"

(* the run met no failure of a library call and converted the input *)
CleanRun == Finished /\ faults = 0 /\ ~UsageShown

(* the name of the array: prefix, symbol and suffix as given *)
ArrayName == TextOf(Prefix) \o StrAt(Symbol, 0) \o TextOf(Suffix)

(* the declaration in front of "[] = { " for the program and the shape *)
Declaration ==
    IF env.prog = "bin2h"
    THEN <<"s", "t", "a", "t", "i", "c", " ", "u", "n", "s", "i", "g", "n",
           "e", "d", " ", "c", "h", "a", "r", " ", "c", "o", "n", "s", "t",
           " ">> \o ArrayName
    ELSE IF IsGlobal
    THEN <<"#", "i", "n", "c", "l", "u", "d", "e", " ", "\"">>
         \o StrAt(Symbol, 0)
         \o <<".", "h", "\"", "\n", "\n", "u", "n", "s", "i", "g", "n", "e",
              "d", " ", "c", "h", "a", "r", " ", "c", "o", "n", "s", "t", " ">>
         \o ArrayName
    ELSE <<"s", "t", "a", "t", "i", "c", " ", "u", "n", "s", "i", "g", "n",
           "e", "d", " ", "c", "h", "a", "r", " ", "c", "o", "n", "s", "t",
           " ">> \o ArrayName

EndsWith(text, tail) ==
    /\ Len(text) >= Len(tail)
    /\ SubSeq(text, Len(text) - Len(tail) + 1, Len(text)) = tail

(* C12: a run on an empty input file that meets no failure exits with      *)
(* success; the file of the definition holds the declaration, "[] = { "    *)
(* and " };\n" with nothing between them, and the header of the global     *)
(* shape ends with the value 0 of the size macro.                          *)
C12_EmptySourceEmptyArray ==
    (CleanRun /\ env.source = <<>>) =>
        /\ status = "EXIT_SUCCESS"
        /\ Len(files) = (IF IsGlobal THEN 2 ELSE 1)
        /\ files[1].text
             = Declaration \o <<"[", "]", " ", "=", " ", "{", " ">>
                           \o <<" ", "}", ";", "\n">>
        /\ IsGlobal =>
              EndsWith(files[2].text,
                       <<" ", " ", "0", "\n", "\n", "#", "e", "n", "d", "i", "f", "\n">>)

C12_Witness ==
    /\ CleanRun
    /\ env.source = <<>>
    /\ IsGlobal
    /\ status = "EXIT_SUCCESS"
    /\ Len(files) = 2
    /\ EndsWith(files[1].text, <<"{", " ", " ", "}", ";", "\n">>)

(* C13 (as claimed): when fread met a read error after N bytes were        *)
(* delivered, the run ends with exactly N elements written, without the    *)
(* closing " };\n", without the header of the global shape, and with the   *)
(* failure status.                                                         *)
C13_ReadErrorStopsTheRun ==
    (Finished /\ infile.error) =>
        /\ status = "EXIT_FAILURE"
        /\ Len(files) = 1
        /\ NumElements(files[1].text) = infile.pos
        /\ ~EndsWith(files[1].text, <<" ", "}", ";", "\n">>)

(* C14 (as claimed): once the write of an element failed, no later element *)
(* is written to the output file, the remaining bytes of the current chunk *)
(* included, and the run ends with the failure status.                     *)
C14_WriteFailureAborts ==
    [][(/\ pc \in {"r_element", "r_eof", "r_loop"}
        /\ ~success
        /\ outfile # 0
        /\ run.buffer = "allocated"
        /\ ~infile.error)
       => /\ files' = files
          /\ pc' # "r_element"]_vars

----------------------------------------------------------------------------
(* Specification SpecCount: the counting of the elements in the inner loop *)
(* of main_runbin2c (bin2c 783-808) from a count near LONG_MAX, for a      *)
(* chunk of count bytes.  Only the statements on success, length and count *)
(* are kept; every fprintf succeeds.                                       *)

MaxCountGap == 6
MaxCountChunk == 8

CountStarts ==
    {LONG_MAX - k : k \in 0..MaxCountGap} \cup 0..MaxCountGap

Init_Count ==
    /\ MainIdle
    /\ fpc = "counting"
    /\ fin \in [length : CountStarts, count : 1..MaxCountChunk]
    /\ fout = [success |-> TRUE, length |-> fin.length, count |-> fin.count,
               written |-> 0]

(* one iteration of while ( count > 0 ) *)
F_countelement ==
    /\ fpc = "counting"
    /\ fout.count > 0
    /\ LET r == count_element(fout.success, fout.length)
       IN  fout' = [success |-> r.success, length |-> r.length,
                    count |-> fout.count - 1, written |-> fout.written + 1]
    /\ UNCHANGED <<fpc, fin, mvars>>

Next_Count == F_countelement

SpecCount == Init_Count /\ [][Next_Count]_vars

(* C15 (as claimed): the element count stays within 0..LONG_MAX; a count   *)
(* that reaches exactly LONG_MAX is accepted; the byte that would exceed   *)
(* LONG_MAX fails the operation without being written, without changing    *)
(* the counter and without further bytes being processed.                  *)
C15_CountWithinLongMax ==
    fpc = "counting" =>
        /\ fout.length >= 0
        /\ fout.length <= LONG_MAX
        /\ fout.success => fout.length = fin.length + fout.written
        /\ ~fout.success =>
              /\ fout.length = LONG_MAX
              /\ fout.written = LONG_MAX - fin.length

----------------------------------------------------------------------------
(* The output files of bin2c *)

(* the input path without its extension: main_shortenname has put the      *)
(* terminator in the place of the extension dot before any file is opened  *)
InputStem == StrAt(argv[args.inpath], 0)

HasSizeMacro(text) ==
    \E i \in 1..(Len(text) - 6) :
        SubSeq(text, i, i + 6) = <<"#", "d", "e", "f", "i", "n", "e">>

(* C16: bin2c opens the files of a shape in a fixed order.  The static      *)
(* shape opens at most one file, the .h path, and writes no size macro; the *)
(* global shape opens the .c path first and the .h path second, and the .c *)
(* file is closed before the .h file is opened; a run without failure       *)
(* opens one file for the static shape and two for the global shape.       *)
C16_FilesOpenedInOrder ==
    (env.prog = "bin2c" /\ files # <<>>) =>
        /\ Len(files) <= (IF IsGlobal THEN 2 ELSE 1)
        /\ files[1].name = InputStem \o <<".", IF IsGlobal THEN "c" ELSE "h">>
        /\ ~IsGlobal => ~HasSizeMacro(files[1].text)
        /\ Len(files) = 2 =>
              /\ files[2].name = InputStem \o <<".", "h">>
              /\ ~files[1].open
              /\ ~HasSizeMacro(files[1].text)
        /\ CleanRun => Len(files) = (IF IsGlobal THEN 2 ELSE 1)
        /\ Finished => \A i \in 1..Len(files) : ~files[i].open

C16_Witness ==
    /\ env.prog = "bin2c"
    /\ pc = "g_flush"
    /\ success
    /\ Len(files) = 2
    /\ files[1].name = <<"d", "/", "c", ".", "c">>
    /\ files[2].name = <<"d", "/", "c", ".", "h">>
    /\ ~files[1].open
    /\ files[2].open
    /\ HasSizeMacro(files[2].text)

----------------------------------------------------------------------------
(* The header of the global shape *)

UpperOf(c) ==
    IF IsLower(c)
    THEN UpperCase[CHOOSE k \in 1..Len(LowerCase) : LowerCase[k] = c]
    ELSE c

UpperText(text) == [i \in 1..Len(text) |-> UpperOf(text[i])]

(* the decimal digits of a count below 100 *)
CountText(n) ==
    IF n < 10 THEN <<DecDigits[n + 1]>>
    ELSE <<DecDigits[(n \div 10) + 1], DecDigits[(n % 10) + 1]>>

(* "#if !defined ( __G_H__ )\n\n#define __G_H__\n\nextern unsigned char    *)
(* const NAME[];\n\n#define MACRO  N\n\n#endif\n"                           *)
HeaderText(guard, name, macro, n) ==
    <<"#", "i", "f", " ", "!", "d", "e", "f", "i", "n", "e", "d", " ", "(",
      " ", "_", "_">> \o guard \o <<"_", "H", "_", "_", " ", ")", "\n", "\n">>
    \o <<"#", "d", "e", "f", "i", "n", "e", " ", "_", "_">> \o guard
    \o <<"_", "H", "_", "_", "\n", "\n">>
    \o <<"e", "x", "t", "e", "r", "n", " ", "u", "n", "s", "i", "g", "n", "e",
         "d", " ", "c", "h", "a", "r", " ", "c", "o", "n", "s", "t", " ">>
    \o name \o <<"[", "]", ";", "\n", "\n">>
    \o <<"#", "d", "e", "f", "i", "n", "e", " ">> \o macro \o <<" ", " ">> \o n
    \o <<"\n", "\n", "#", "e", "n", "d", "i", "f", "\n">>

(* C17: in a run of the global shape without failure the header is the     *)
(* include guard named by the upper-cased symbol alone, the extern         *)
(* declaration of prefix + symbol + suffix as given, and the size macro    *)
(* named by the upper-cased prefix + symbol + length marker (the suffix of *)
(* the array left out) with the element count as its value.                *)
C17_HeaderNames ==
    (CleanRun /\ env.prog = "bin2c" /\ IsGlobal) =>
        /\ Len(files) = 2
        /\ files[2].text
             = HeaderText(UpperText(StrAt(Symbol, 0)),
                          TextOf(Prefix) \o StrAt(Symbol, 0) \o TextOf(Suffix),
                          UpperText(TextOf(Prefix) \o StrAt(Symbol, 0) \o TextOf(Global)),
                          CountText(Len(env.source)))

C17_Witness ==
    /\ CleanRun
    /\ env.prog = "bin2c"
    /\ IsGlobal
    /\ Len(env.source) = 3
    /\ files[2].text
         = HeaderText(<<"C">>, <<"s", "_", "c", "_", "d">>,
                      <<"S", "_", "C", "_", "N">>, <<"3">>)

----------------------------------------------------------------------------
(* The exit status *)

(* C18 (as claimed): a run in which a step failed (fopen, malloc, a write, *)
(* a flush or a close; read errors aside) ends with the failure status,    *)
(* and so does a run whose arguments were refused.                         *)
C18_AnyFailureFailsTheExit ==
    Finished =>
        /\ (faults > 0 /\ ~infile.error) => status = "EXIT_FAILURE"
        /\ UsageShown => status = "EXIT_FAILURE"

(* C19 (as claimed): in bin2c, while no output file could be opened, the   *)
(* input is not read and nothing is done through the null outfile: the     *)
(* process does not reach the undefined fprintf or fputs.                  *)
C19_FailedOpenAborts ==
    (env.prog = "bin2c" /\ files = <<>>) =>
        /\ infile.pos = 0
        /\ ~infile.eof
        /\ ~infile.error
        /\ pc # "crashed"

----------------------------------------------------------------------------
(* Specification SpecArgs: main_parseargs applied to an argument vector:   *)
(* the program name followed by at most MaxArgs arguments, or no argument  *)
(* at all (argc = 0).                                                      *)

MaxArgs == 5

ArgTokens ==
    {ARG_plain, ARG_p, CStr(<<"-", "P">>), ARG_s, ARG_g, CStr(<<"-", "x">>)}

(* arguments that start as an option and are none: extra characters, and   *)
(* the hyphen alone                                                        *)
MaxOddArgs == 3

OddTokens == {CStr(<<"-", "p", "p">>), CStr(<<"-">>)}

ArgSeqs ==
    {<<>>}
    \cup {<<ARG_program>> \o t :
            t \in UNION {[1..n -> ArgTokens] : n \in 0..MaxArgs}}
    \cup {<<ARG_program>> \o t :
            t \in UNION {[1..n -> ArgTokens \cup OddTokens] : n \in 0..MaxOddArgs}}

Init_Args ==
    /\ MainIdle
    /\ fpc = "call"
    /\ fin \in [prog : {"bin2c", "bin2h"}, argv : ArgSeqs]
    /\ fout = [ret |-> 0]

F_parseargs ==
    /\ fpc = "call"
    /\ fpc' = "parsed"
    /\ fout' = main_parseargs(fin.prog, fin.argv)
    /\ UNCHANGED <<fin, mvars>>

Next_Args == F_parseargs

SpecArgs == Init_Args /\ [][Next_Args]_vars

(* the option letter of an argument, in lower case; "" for a plain         *)
(* argument and for a letter that is no option of the program              *)
OptionOf(prog, arg) ==
    IF arg[1] # "-" THEN ""
    ELSE IF arg[2] \in {"p", "P"} THEN "p"
    ELSE IF arg[2] \in {"s", "S"} THEN "s"
    ELSE IF arg[2] \in {"g", "G"} /\ prog = "bin2c" THEN "g"
    ELSE ""

HasDuplicateOption(prog, av) ==
    \E i, j \in 2..Len(av) :
        /\ i < j
        /\ OptionOf(prog, av[i]) # ""
        /\ OptionOf(prog, av[i]) = OptionOf(prog, av[j])

(* C20 (as claimed): main_parseargs returns failure for every argument     *)
(* vector in which an option occurs more than once.                        *)
C20_DuplicateOptionFails ==
    (fpc = "parsed" /\ HasDuplicateOption(fin.prog, fin.argv)) => ~fout.success

IsPlain(arg) == arg[1] # "-"

(* exactly "-" and one of the letters p, s, g in either case *)
IsOption(arg) ==
    /\ Len(arg) = 3
    /\ arg[1] = "-"
    /\ arg[2] \in {"p", "P", "s", "S", "g", "G"}
    /\ arg[3] = NUL

(* program name, one input path, then pairs of an option and a parameter *)
WellFormed(av) ==
    /\ Len(av) >= 2
    /\ IsPlain(av[2])
    /\ (Len(av) - 2) % 2 = 0
    /\ \A k \in 1..((Len(av) - 2) \div 2) :
           IsOption(av[2 * k + 1]) /\ IsPlain(av[2 * k + 2])

(* the index of the parameter of the last option with the letter, 0 when   *)
(* the option is not given                                                 *)
ParameterOf(prog, av, letter) ==
    LET where == {i \in 2..Len(av) : OptionOf(prog, av[i]) = letter}
    IN  IF where = {} THEN 0
        ELSE (CHOOSE i \in where : \A j \in where : j <= i) + 1

(* C21 (as claimed): main_parseargs returns success only for a program     *)
(* name, one input path and pairs of an option (- and one letter of p, s,  *)
(* g in either case) and a parameter; on success the input path is the     *)
(* first argument and each of prefix, suffix and global is the parameter   *)
(* of its option, whichever the case of the letter.                        *)
C21_ParseArgsGrammar ==
    (fpc = "parsed" /\ fout.success) =>
        /\ WellFormed(fin.argv)
        /\ fout.program = 1
        /\ fout.inpath = 2
        /\ fout.prefix = ParameterOf(fin.prog, fin.argv, "p")
        /\ fout.suffix = ParameterOf(fin.prog, fin.argv, "s")
        /\ fout.global = ParameterOf(fin.prog, fin.argv, "g")

----------------------------------------------------------------------------
(* The argument errors of main *)

(* the arguments have the form the program accepts *)
ArgsValid ==
    /\ WellFormed(argv)
    /\ env.prog = "bin2h" => \A i \in 2..Len(argv) : ~(argv[i][1] = "-" /\ argv[i][2] \in {"g", "G"})

BeforeDispatch == pc \in {"parse", "openin", "outpath", "dispatch"}

----------------------------------------------------------------------------
(* The chunk buffer *)

InLoop == pc \in {"r_loop", "r_element", "r_eof"}

AfterLoop ==
    \/ pc \in {"r_close", "r_flush", "h_flush", "g_open", "g_guard", "g_decl",
               "g_size", "g_flush", "r_return"}
    \/ pc \in {"cleanup", "done"} /\ ~UsageShown

(* C23: the buffer is released exactly once on every way out of the loop   *)
(* and never used after that: it is not released while the loop runs, it   *)
(* is allocated whenever fread or an element reads it, it is allocated or  *)
(* NULL when the release is reached, and from there on it is released, or  *)
(* NULL when the allocation failed (no release is attempted then).         *)
C23_BufferReleasedOnce ==
    /\ InLoop => run.buffer \in {"allocated", "NULL"}
    /\ ((pc = "r_loop" /\ success) \/ pc = "r_element") => run.buffer = "allocated"
    /\ pc = "r_free" => run.buffer \in {"allocated", "NULL"}
    /\ AfterLoop => run.buffer \in {"freed", "NULL"}
    /\ (AfterLoop /\ run.buffer = "NULL") => (infile.pos = 0 /\ ~infile.eof)

C23_Witness ==
    /\ Finished
    /\ run.buffer = "freed"
    /\ infile.error
    /\ infile.pos = 1
    /\ status = "EXIT_FAILURE"

----------------------------------------------------------------------------
(* The output as a function of the source *)

(* the element of a byte: 0x, the value in hexadecimal, u *)
ElementText(byte) ==
    <<"0", "x">>
    \o (IF byte < 16 THEN <<HexDigits[byte + 1]>>
        ELSE <<HexDigits[(byte \div 16) + 1], HexDigits[(byte % 16) + 1]>>)
    \o <<"u">>

(* the elements of the bytes separated by ", " *)
RECURSIVE ExpectedBody(_)
ExpectedBody(source) ==
    IF source = <<>> THEN <<>>
    ELSE IF Len(source) = 1 THEN ElementText(source[1])
    ELSE ElementText(source[1]) \o <<",", " ">> \o ExpectedBody(Tail(source))

(* C24: the output and the count are those of the source alone, whatever   *)
(* the chunk size and the number of bytes each fread delivered: when the   *)
(* loop ends with success the body is the elements of the source and the   *)
(* count is its length, and a run without failure ends with success and    *)
(* the file of the definition is the declaration, the opening, that body    *)
(* and the closing.                                                        *)
C24_OutputIndependentOfChunks ==
    /\ (LoopEnded /\ success /\ HasOpen) =>
          /\ ArrayBody = ExpectedBody(env.source)
          /\ env.prog = "bin2c" => run.length = Len(env.source)
    /\ CleanRun =>
          /\ status = "EXIT_SUCCESS"
          /\ files[1].text
               = Declaration \o <<"[", "]", " ", "=", " ", "{", " ">>
                             \o ExpectedBody(env.source)
                             \o <<" ", "}", ";", "\n">>

(* a source of three bytes read one byte at a time *)
C24_Witness ==
    /\ CleanRun
    /\ env.chunksize = 1
    /\ env.source = <<200, 5, 200>>
    /\ status = "EXIT_SUCCESS"
    /\ EndsWith(files[1].text,
                <<"{", " ", "0", "x", "C", "8", "u", ",", " ", "0", "x", "5", "u",
                  ",", " ", "0", "x", "C", "8", "u", " ", "}", ";", "\n">>)

----------------------------------------------------------------------------
(* The failures of fflush and fclose *)

FlushSteps == {"r_flush", "h_flush", "g_flush"}

AfterFlush == {"g_open", "g_guard", "g_decl", "g_size", "g_flush", "r_return"}

CloseMessage ==
    [text |-> "ERROR: failed to properly close", program |-> <<>>]

CreateMessage ==
    [text |-> "ERROR: failed to create", program |-> <<>>]

(* C25: a failure of fflush or fclose is detected.  When the first failure *)
(* of a run is that of an fflush or fclose of an output file in the        *)
(* conversion, success becomes false, stays false to the end of the        *)
(* conversion, the message of the failed conversion is written and the     *)
(* exit status is the failure status; when it is a failure of fclose in    *)
(* the cleanup of main, of the output file of bin2h or of the input file,  *)
(* the message of the failed close is written and the exit status is the   *)
(* failure status.                                                         *)
C25_FlushAndCloseFailuresDetected ==
    [][/\ (pc \in FlushSteps /\ success /\ faults = 0 /\ faults' > 0)
             => ~success'
       /\ (pc \in AfterFlush /\ ~success) => ~success'
       /\ (pc = "r_return" /\ ~success)
             => (stderr' = Append(stderr, CreateMessage) /\ ~success')
       /\ (pc = "cleanup" /\ ~success) => status' = "EXIT_FAILURE"
       /\ (pc = "cleanup" /\ success /\ faults = 0 /\ faults' > 0)
             => /\ stderr' = Append(stderr, CloseMessage)
                /\ status' = "EXIT_FAILURE"]_vars

(* the fclose of the header of a global array failed after both files were *)
(* written in full                                                         *)
C25_Witness ==
    /\ Finished
    /\ env.prog = "bin2c"
    /\ faults = 1
    /\ Len(files) = 2
    /\ EndsWith(files[1].text, <<" ", "}", ";", "\n">>)
    /\ EndsWith(files[2].text, TEXT_endif)
    /\ stderr = <<CreateMessage>>
    /\ status = "EXIT_FAILURE"

----------------------------------------------------------------------------
(* A failed write of the preamble *)

HasBrace(text) == \E i \in 1..Len(text) : text[i] = "{"

(* the output file was opened and the code is past the preamble, whose     *)
(* last text "[] = { " is not in the file: a write of the preamble failed  *)
PreambleFailed ==
    /\ pc \in {"r_alloc", "r_loop", "r_element", "r_eof", "r_free", "r_close"}
    /\ outfile # 0
    /\ ~HasBrace(files[outfile].text)

(* C26 (as claimed): after a failed write of the preamble the failure      *)
(* persists whether or not malloc succeeds: the source is not read, no     *)
(* element is written, and the run exits with the failure status.          *)
C26_PreambleFailurePersists ==
    /\ PreambleFailed =>
          /\ infile.pos = 0
          /\ ~infile.eof
          /\ NumElements(files[outfile].text) = 0
    /\ (Finished /\ files # <<>> /\ ~HasBrace(files[1].text)) =>
          status = "EXIT_FAILURE"

----------------------------------------------------------------------------
(* A failed write of the name of the array in bin2c *)

(* the step in which main_runbin2c writes the name of the array to the     *)
(* file of the definition or to the header                                 *)
NameStep == env.prog = "bin2c" /\ pc \in {"r_name", "g_decl"} /\ success

(* the text that the step appends to the output file *)
Appended ==
    SubSeq(files'[outfile].text, Len(files[outfile].text) + 1,
           Len(files'[outfile].text))

StartsWith(text, head) ==
    /\ Len(text) >= Len(head)
    /\ SubSeq(text, 1, Len(head)) = head

(* a write of the prefix, of the symbol or of the suffix failed *)
NameWriteFailed == faults' > faults /\ ~StartsWith(Appended, ArrayName)

(* C27 (as claimed): when main_runbin2c_outputsymbol fails, bin2c writes   *)
(* nothing after the name to that file ("[] = { " in the definition,       *)
(* "[];" and the size macro in the header) and success becomes false.      *)
C27_FailedNameStopsTheFile ==
    [][(NameStep /\ NameWriteFailed)
          => /\ ~success'
             /\ \A i \in 1..Len(Appended) : Appended[i] # "["]_vars

----------------------------------------------------------------------------
(* The symbol and the header *)

(* the output path with its last character replaced by h, as bin2c names   *)
(* the header of a global array                                            *)
HeaderPath ==
    LET out == StrAt(Unpack(fout.outpath), 0)
    IN  [out EXCEPT ![Len(out)] = "h"]

(* the part of a path after its last separator *)
FileNameOf(path) == SubSeq(path, LastSeparator(path) + 1, Len(path))

(* C28 (as claimed): for every input path that gets an output path, a file *)
(* name that begins with "." included, main_shortenname and                *)
(* main_constructoutpath cut the name at the same place: the symbol        *)
(* followed by ".h", the name written in the #include line, is the file    *)
(* name of the header path.                                                *)
C28_IncludeNamesTheHeader ==
    fpc = "shortened" =>
        StrAt(Unpack(fout.buf), fout.ret) \o <<".", "h">> = FileNameOf(HeaderPath)

----------------------------------------------------------------------------
(* The accesses of main_constructoutpath *)

----------------------------------------------------------------------------
(* Specification SpecTwin: bin2c without -g and bin2h run side by side on  *)
(* the same arguments and the same input file, every call of the C library *)
(* succeeding.  The input file is before bytes followed by the bytes rest; *)
(* the elements of the first before bytes are left out of the texts of     *)
(* both sides, and rest starts a chunk.                                    *)

MaxTwinGap == 2
MaxTwinRest == 3

TwinArgs ==
    { <<ARG_program, ARG_inpath>>,
      <<ARG_program, ARG_plain, ARG_p, ARG_prefix, ARG_s, ARG_suffix>> }

TwinStarts == {0} \cup {LONG_MAX - k : k \in 0..MaxTwinGap}

TwinRests == UNION {[1..n -> SourceBytes] : n \in 0..MaxTwinRest}

(* main up to the call of the conversion and the conversion up to its     *)
(* loop: the output path, the file opened under it and the declaration    *)
twin_open(prog, stdc99, vector, before) ==
    LET parsed == main_parseargs(prog, vector)
        made == main_constructoutpath(vector[parsed.inpath],
                                      IF prog = "bin2c" THEN " " ELSE "h", TRUE)
        path == IF prog = "bin2c"
                THEN [made.outpath EXCEPT ![strlen(made.outpath)] = "h"]
                ELSE made.outpath
        short == main_shortenname(vector[parsed.inpath])
        name == From(short.buf, short.path)
        prefix == IF parsed.prefix = 0 THEN NULL ELSE vector[parsed.prefix]
        suffix == IF parsed.suffix = 0 THEN NULL ELSE vector[parsed.suffix]
        texts == (IF prog = "bin2c"
                  THEN <<TEXT_static, TEXT_unsigned_char_const>>
                  ELSE <<TEXT_static_unsigned_char_const>>)
                 \o outputsymbol_texts(prefix, name, suffix)
                 \o <<TEXT_open>>
    IN  [name |-> StrAt(path, 0),
         text |-> Written(texts, [i \in 1..Len(texts) |-> FALSE]),
         success |-> TRUE,
         length |-> before,
         format |-> IF before = 0 THEN FormatFirst(prog, stdc99)
                    ELSE FormatNext(prog, stdc99),
         stopped |-> FALSE]

(* one iteration of the inner while: the element is written, bin2c counts *)
(* it, and the format gets its separator                                   *)
twin_element(prog, stdc99, side, byte) ==
    LET counted == IF prog = "bin2c"
                   THEN count_element(side.success, side.length)
                   ELSE [success |-> side.success, length |-> side.length]
    IN  [side EXCEPT !.text = @ \o Printf(side.format, <<byte>>),
                     !.success = counted.success,
                     !.length = counted.length,
                     !.format = FormatNext(prog, stdc99)]

(* the next byte of the input file on one side: while ( success ) is       *)
(* tested where a chunk starts and ends the loop of that side              *)
twin_step(prog, stdc99, side, byte, boundary) ==
    IF side.stopped \/ (boundary /\ ~side.success)
    THEN [side EXCEPT !.stopped = TRUE]
    ELSE twin_element(prog, stdc99, side, byte)

(* after the loop: " };\n" under success *)
twin_close(side) ==
    [side EXCEPT !.text = IF side.success THEN @ \o TEXT_close ELSE @,
                 !.stopped = TRUE]

Init_Twin ==
    /\ MainIdle
    /\ fpc = "twin_open"
    /\ fin \in {f \in [vector : TwinArgs, stdc99 : BOOLEAN, chunksize : 1..MaxChunk,
                       before : TwinStarts, rest : TwinRests] :
                    f.before % f.chunksize = 0}
    /\ fout = [pos |-> 0]

T_Open ==
    /\ fpc = "twin_open"
    /\ fpc' = "twin_loop"
    /\ fout' = [pos |-> 0,
                c |-> twin_open("bin2c", fin.stdc99, fin.vector, fin.before),
                h |-> twin_open("bin2h", FALSE, fin.vector, fin.before)]
    /\ UNCHANGED <<fin, mvars>>

T_Element ==
    /\ fpc = "twin_loop"
    /\ fout.pos < Len(fin.rest)
    /\ LET byte == fin.rest[fout.pos + 1]
           boundary == fout.pos % fin.chunksize = 0
       IN  fout' = [pos |-> fout.pos + 1,
                    c |-> twin_step("bin2c", fin.stdc99, fout.c, byte, boundary),
                    h |-> twin_step("bin2h", FALSE, fout.h, byte, boundary)]
    /\ UNCHANGED <<fpc, fin, mvars>>

T_Close ==
    /\ fpc = "twin_loop"
    /\ fout.pos = Len(fin.rest)
    /\ fpc' = "twin_done"
    /\ fout' = [fout EXCEPT !.c = twin_close(@), !.h = twin_close(@)]
    /\ UNCHANGED <<fin, mvars>>

Next_Twin == T_Open \/ T_Element \/ T_Close

SpecTwin == Init_Twin /\ [][Next_Twin]_vars

(* the two sides have created the same file with the same contents and     *)
(* the same result                                                         *)
TwinSame ==
    /\ fout.c.name = fout.h.name
    /\ fout.c.text = fout.h.text
    /\ fout.c.success = fout.h.success

(* C29 (as claimed): for every input path, input file, prefix and suffix,  *)
(* and when no call fails, bin2c without -g creates the output path of     *)
(* bin2h and writes the same contents.                                     *)
C29_StaticMatchesBin2h ==
    fpc = "twin_done" => TwinSame

(* C29 (amended): the same for every input file of at most LONG_MAX bytes, *)
(* and both runs succeed.                                                  *)
C29_StaticMatchesBin2hWithinLongMax ==
    (fpc = "twin_done" /\ Len(fin.rest) <= LONG_MAX - fin.before) =>
        /\ TwinSame
        /\ fout.c.success
        /\ EndsWith(fout.c.text, TEXT_close)
        /\ fin.before = 0 =>
              fout.h.text = <<"s", "t", "a", "t", "i", "c", " ", "u", "n", "s", "i",
                              "g", "n", "e", "d", " ", "c", "h", "a", "r", " ", "c",
                              "o", "n", "s", "t", " ">>
                            \o (IF Len(fin.vector) > 2 THEN <<"s", "_", "c", "_", "d">>
                                ELSE <<"c">>)
                            \o <<"[", "]", " ", "=", " ", "{", " ">>
                            \o ExpectedBody(fin.rest)
                            \o <<" ", "}", ";", "\n">>

(* a whole input file of three bytes converted by the C99 build of bin2c   *)
(* and by bin2h                                                            *)
C29_Witness ==
    /\ fpc = "twin_done"
    /\ fin.before = 0
    /\ fin.stdc99
    /\ fin.rest = <<200, 5, 200>>
    /\ fout.c.name = <<"d", "/", "c", ".", "h">>
    /\ fout.c.text = fout.h.text
    /\ EndsWith(fout.h.text, <<"0", "x", "C", "8", "u", " ", "}", ";", "\n">>)

====
